---------------------------- MODULE Spec2Model ----------------------------
(***************************************************************************)
(* A model of restson (src/src/lib.rs, src/src/blocking.rs): the typed     *)
(* REST client, its configuration setters, the request builder             *)
(* (make_request, make_uri), the transport executor with its timeout race  *)
(* (run_request) and the response decoder (Response::parse).               *)
(*                                                                         *)
(* Text is modelled as a sequence of one-character strings, so that        *)
(* parsing, joining, encoding and length are computed and not assumed.     *)
(* Result values are records: Ok(v) is [ok |-> TRUE, val |-> v] and        *)
(* Err(e) is [ok |-> FALSE, err |-> e].                                    *)
(***************************************************************************)
EXTENDS Integers, Sequences, FiniteSets, TLC

Ok(v) == [ok |-> TRUE, val |-> v]
Err(e) == [ok |-> FALSE, err |-> e]

(* Option<T>: None, or Some(v).                                            *)
None == [some |-> FALSE]
Some(v) == [some |-> TRUE, v |-> v]

(***************************************************************************)
(* Text helpers.                                                           *)
(***************************************************************************)
Letters == {"a", "b", "c", "h", "p", "s", "t", "x", "n", "u", "l", "v",
            "A", "B", "C", "T", "U", "X", "g", "e", "r", "y", "o", "i", "j"}
Digits == {"0", "1", "2", "3", "4", "5", "6", "7", "8", "9"}

(* The first position of s holding a character of C, Len(s)+1 if none.     *)
FirstIn(s, C) ==
    IF \E i \in 1..Len(s) : s[i] \in C
    THEN CHOOSE i \in 1..Len(s) : s[i] \in C /\ \A j \in 1..(i - 1) : s[j] \notin C
    ELSE Len(s) + 1

Prefix(s, n) == SubSeq(s, 1, n)
Suffix(s, n) == SubSeq(s, n, Len(s))

StartsWith(s, p) == Len(s) >= Len(p) /\ SubSeq(s, 1, Len(p)) = p

RECURSIVE Concat(_)
(* The concatenation of a sequence of texts.                               *)
Concat(ss) == IF ss = <<>> THEN <<>> ELSE Head(ss) \o Concat(Tail(ss))

RECURSIVE JoinWith(_, _)
(* The texts of ss with sep between neighbours.                            *)
JoinWith(ss, sep) ==
    IF ss = <<>> THEN <<>>
    ELSE IF Len(ss) = 1 THEN ss[1]
    ELSE ss[1] \o sep \o JoinWith(Tail(ss), sep)

RECURSIVE SplitOn(_, _)
(* s cut at every occurrence of the character c (c itself dropped).        *)
SplitOn(s, c) ==
    LET i == FirstIn(s, {c})
    IN  IF i > Len(s) THEN <<s>>
        ELSE <<Prefix(s, i - 1)>> \o SplitOn(Suffix(s, i + 1), c)

RECURSIVE ToDecimal(_)
(* usize::to_string: the decimal digits of n.                              *)
ToDecimal(n) ==
    LET d == <<"0", "1", "2", "3", "4", "5", "6", "7", "8", "9">>
    IN  IF n < 10 THEN <<d[n + 1]>> ELSE ToDecimal(n \div 10) \o <<d[(n % 10) + 1]>>

(***************************************************************************)
(* url::Url (the part of the WHATWG parser the inputs of this model use:   *)
(* the special scheme http, a host without port or credentials, a path,    *)
(* an optional query and an optional fragment).                            *)
(***************************************************************************)
HttpScheme == <<"h", "t", "t", "p">>

(* The position of the ':' ending a scheme at the start of s, 0 if s does  *)
(* not start with a scheme (ALPHA *( ALPHA / DIGIT / + / - / . ) ':').     *)
SchemeEnd(s) ==
    LET i == FirstIn(s, {":"})
    IN  IF /\ i <= Len(s)
           /\ i > 1
           /\ s[1] \in Letters
           /\ \A j \in 1..(i - 1) : s[j] \in Letters \cup Digits \cup {"+", "-", "."}
        THEN i ELSE 0

(* Percent-encoding of the path and query encode sets, on the characters   *)
(* of the model: a space becomes %20.                                      *)
RECURSIVE PctEncode(_)
PctEncode(s) ==
    IF s = <<>> THEN <<>>
    ELSE (IF Head(s) = " " THEN <<"%", "2", "0">> ELSE <<Head(s)>>) \o PctEncode(Tail(s))

RECURSIVE PushSegments(_, _)
(* The path parser's loop: segs pushed onto path one by one, with the      *)
(* single-dot and double-dot segments resolved as the parser does.         *)
PushSegments(path, segs) ==
    IF segs = <<>> THEN path
    ELSE LET seg == Head(segs)
             last == Len(segs) = 1
             popped == IF path = <<>> THEN <<>> ELSE Prefix(path, Len(path) - 1)
         IN  IF seg = <<".", ".">>
             THEN PushSegments(IF last THEN Append(popped, <<>>) ELSE popped, Tail(segs))
             ELSE IF seg = <<".">>
             THEN PushSegments(IF last THEN Append(path, <<>>) ELSE path, Tail(segs))
             ELSE PushSegments(Append(path, PctEncode(seg)), Tail(segs))

(* The text after a path: [query, fragment] of "?q#f" (each an Option).    *)
ParseQueryFragment(s) ==
    LET h == FirstIn(s, {"#"})
        beforeHash == Prefix(s, h - 1)
        frag == IF h <= Len(s) THEN Some(PctEncode(Suffix(s, h + 1))) ELSE None
        query == IF beforeHash # <<>> /\ beforeHash[1] = "?"
                 THEN Some(PctEncode(Tail(beforeHash))) ELSE None
    IN  [query |-> query, fragment |-> frag]

(* A path text (up to the first ? or #) pushed onto the segments in path.  *)
ParsePathOnto(path, s) ==
    LET e == FirstIn(s, {"?", "#"})
        p == Prefix(s, e - 1)
        segs == SplitOn(IF p # <<>> /\ p[1] = "/" THEN Tail(p) ELSE p, "/")
    IN  PushSegments(path, segs)

RECURSIVE SkipSlashes(_)
SkipSlashes(s) == IF s # <<>> /\ s[1] = "/" THEN SkipSlashes(Tail(s)) ELSE s

(* Url::parse: a string with no scheme is RelativeUrlWithoutBase, a        *)
(* special scheme with an empty host is EmptyHost.                         *)
UrlParse(s) ==
    LET colon == SchemeEnd(s)
        rest == SkipSlashes(Suffix(s, colon + 1))
        hostEnd == FirstIn(rest, {"/", "?", "#"})
        host == Prefix(rest, hostEnd - 1)
        after == Suffix(rest, hostEnd)
        qf == ParseQueryFragment(Suffix(after, FirstIn(after, {"?", "#"})))
    IN  IF colon = 0 THEN Err("RelativeUrlWithoutBase")
        ELSE IF Prefix(s, colon - 1) # HttpScheme THEN Err("SchemeNotModelled")
        ELSE IF host = <<>> THEN Err("EmptyHost")
        ELSE Ok([scheme |-> HttpScheme, host |-> host,
                 path |-> ParsePathOnto(<<>>, after),
                 query |-> qf.query, fragment |-> qf.fragment])

(* Url::join, were a relative path always appended to the whole base path. *)
UrlJoin_appends(base, s) ==
    LET qfOf(t) == ParseQueryFragment(Suffix(t, FirstIn(t, {"?", "#"})))
        whole(p) == IF p # <<>> /\ p[Len(p)] = <<>> THEN Prefix(p, Len(p) - 1) ELSE p
    IN  IF SchemeEnd(s) # 0 THEN UrlParse(s)
        ELSE IF s = <<>> THEN Ok([base EXCEPT !.fragment = None])
        ELSE IF s[1] = "/"
        THEN Ok([base EXCEPT !.path = ParsePathOnto(<<>>, s),
                             !.query = qfOf(s).query,
                             !.fragment = qfOf(s).fragment])
        ELSE Ok([base EXCEPT !.path = ParsePathOnto(whole(base.path), s),
                             !.query = qfOf(s).query,
                             !.fragment = qfOf(s).fragment])

(* Url::join: the reference s resolved against base.                       *)
UrlJoin(base, s) ==
    LET qfOf(t) == ParseQueryFragment(Suffix(t, FirstIn(t, {"?", "#"})))
        dirOf(p) == IF p = <<>> THEN <<>> ELSE Prefix(p, Len(p) - 1)
    IN  IF SchemeEnd(s) # 0 THEN UrlParse(s)
        ELSE IF s = <<>> THEN Ok([base EXCEPT !.fragment = None])
        ELSE IF s[1] = "#"
        THEN Ok([base EXCEPT !.fragment = ParseQueryFragment(s).fragment])
        ELSE IF s[1] = "?"
        THEN Ok([base EXCEPT !.query = ParseQueryFragment(s).query,
                             !.fragment = ParseQueryFragment(s).fragment])
        ELSE IF StartsWith(s, <<"/", "/">>)
        THEN UrlParse(base.scheme \o <<":">> \o s)
        ELSE IF s[1] = "/"
        THEN Ok([base EXCEPT !.path = ParsePathOnto(<<>>, s),
                             !.query = qfOf(s).query,
                             !.fragment = qfOf(s).fragment])
        ELSE Ok([base EXCEPT !.path = ParsePathOnto(dirOf(base.path), s),
                             !.query = qfOf(s).query,
                             !.fragment = qfOf(s).fragment])

(* Url::as_str: the serialization.                                         *)
UrlAsStr(u) ==
    u.scheme \o <<":", "/", "/">> \o u.host \o <<"/">> \o JoinWith(u.path, <<"/">>)
      \o (IF u.query.some THEN <<"?">> \o u.query.v ELSE <<>>)
      \o (IF u.fragment.some THEN <<"#">> \o u.fragment.v ELSE <<>>)

(* form_urlencoded::byte_serialize: unreserved characters stay, a space    *)
(* becomes '+', every other byte becomes %XX.                              *)
FormEncodeChar(c) ==
    IF c \in Letters \cup Digits \cup {"*", "-", ".", "_"} THEN <<c>>
    ELSE IF c = " " THEN <<"+">>
    ELSE IF c = "&" THEN <<"%", "2", "6">>
    ELSE IF c = "=" THEN <<"%", "3", "D">>
    ELSE IF c = "+" THEN <<"%", "2", "B">>
    ELSE IF c = "%" THEN <<"%", "2", "5">>
    ELSE IF c = "/" THEN <<"%", "2", "F">>
    ELSE IF c = "?" THEN <<"%", "3", "F">>
    ELSE IF c = "#" THEN <<"%", "2", "3">>
    ELSE IF c = ":" THEN <<"%", "3", "A">>
    ELSE <<"%", "0", "A">>

RECURSIVE FormEncode(_)
FormEncode(s) == IF s = <<>> THEN <<>> ELSE FormEncodeChar(Head(s)) \o FormEncode(Tail(s))

(* url.query_pairs_mut().append_pair(key, item): the pair is appended to   *)
(* the query (created when absent), after '&' when the query is not empty; *)
(* the fragment is kept.                                                    *)
AppendPair(u, key, item) ==
    LET old == IF u.query.some THEN u.query.v ELSE <<>>
        sep == IF old = <<>> THEN <<>> ELSE <<"&">>
    IN  [u EXCEPT !.query = Some(old \o sep \o FormEncode(key) \o <<"=">> \o FormEncode(item))]

RECURSIVE AppendPairs(_, _)
AppendPairs(u, params) ==
    IF params = <<>> THEN u
    ELSE AppendPairs(AppendPair(u, params[1][1], params[1][2]), Tail(params))

(* str::parse::<hyper::Uri>: the fragment is cut off; the characters the   *)
(* Url serialization can hold are all legal in a Uri.                      *)
UriParse(s) == Ok(Prefix(s, FirstIn(s, {"#"}) - 1))


(***************************************************************************)
(* hyper::header: names, values and the HeaderMap multimap.  A HeaderMap   *)
(* is a function from (lower-case) names to the sequence of their values.  *)
(***************************************************************************)
LowerChar(c) ==
    LET upper == <<"A", "B", "C", "D", "E", "F", "G", "H", "I", "J", "K", "L", "M",
                   "N", "O", "P", "Q", "R", "S", "T", "U", "V", "W", "X", "Y", "Z">>
        lower == <<"a", "b", "c", "d", "e", "f", "g", "h", "i", "j", "k", "l", "m",
                   "n", "o", "p", "q", "r", "s", "t", "u", "v", "w", "x", "y", "z">>
    IN  IF \E i \in 1..26 : upper[i] = c
        THEN lower[CHOOSE i \in 1..26 : upper[i] = c]
        ELSE c

(* Whether a text is a legal header name: not empty, token characters     *)
(* only.                                                                   *)
HeaderNameValid(raw) ==
    raw # <<>> /\ \A i \in 1..Len(raw) : raw[i] \notin {" ", ":", "\n", "\r"}

(* HeaderName from a &'static str: the name is stored in lower case.       *)
HeaderNameOf(raw) == [i \in 1..Len(raw) |-> LowerChar(raw[i])]

CONTENT_LENGTH == <<"c", "o", "n", "t", "e", "n", "t", "-", "l", "e", "n", "g", "t", "h">>
CONTENT_TYPE == <<"c", "o", "n", "t", "e", "n", "t", "-", "t", "y", "p", "e">>
AUTHORIZATION == <<"a", "u", "t", "h", "o", "r", "i", "z", "a", "t", "i", "o", "n">>
USER_AGENT == <<"u", "s", "e", "r", "-", "a", "g", "e", "n", "t">>

(* Characters that are no visible ASCII: HeaderValue::from_str refuses     *)
(* them.                                                                    *)
ControlChars == {"\n", "\r"}

(* HeaderValue::from_str.                                                   *)
HeaderValueFromStr(s) ==
    IF \E i \in 1..Len(s) : s[i] \in ControlChars THEN Err("InvalidHeaderValue") ELSE Ok(s)

HeaderMapNew == [n \in {} |-> <<>>]

(* HeaderInsert, were the value added to the earlier values of the name.   *)
HeaderInsert_appends(hm, name, value) ==
    [n \in DOMAIN hm \cup {name} |->
        IF n = name THEN (IF n \in DOMAIN hm THEN hm[n] ELSE <<>>) \o <<value>>
        ELSE hm[n]]

(* HeaderMap::insert: every earlier value of the name is replaced.         *)
HeaderInsert(hm, name, value) ==
    [n \in DOMAIN hm \cup {name} |-> IF n = name THEN <<value>> ELSE hm[n]]

HeaderContainsKey(hm, name) == name \in DOMAIN hm

RECURSIVE InsertValues(_, _, _)
InsertValues(hm, name, values) ==
    IF values = <<>> THEN hm
    ELSE InsertValues(HeaderInsert(hm, name, Head(values)), name, Tail(values))

RECURSIVE InsertAll(_, _, _)
(* for (key, value) in from.iter() { into.insert(key, value.clone()) },    *)
(* over the names left in todo.                                            *)
InsertAll(into, from, todo) ==
    IF todo = {} THEN into
    ELSE LET k == CHOOSE n \in todo : TRUE
         IN  InsertAll(InsertValues(into, k, from[k]), from, todo \ {k})

(***************************************************************************)
(* base64::encode (standard alphabet, padded), on the bytes of ASCII text. *)
(***************************************************************************)
AsciiOf(c) ==
    IF c = "u" THEN 117 ELSE IF c = "s" THEN 115 ELSE IF c = "e" THEN 101
    ELSE IF c = "r" THEN 114 ELSE IF c = "p" THEN 112 ELSE IF c = "a" THEN 97
    ELSE IF c = "b" THEN 98 ELSE IF c = ":" THEN 58 ELSE IF c = "x" THEN 120
    ELSE 63

Base64Alphabet ==
    <<"A", "B", "C", "D", "E", "F", "G", "H", "I", "J", "K", "L", "M", "N", "O", "P",
      "Q", "R", "S", "T", "U", "V", "W", "X", "Y", "Z", "a", "b", "c", "d", "e", "f",
      "g", "h", "i", "j", "k", "l", "m", "n", "o", "p", "q", "r", "s", "t", "u", "v",
      "w", "x", "y", "z", "0", "1", "2", "3", "4", "5", "6", "7", "8", "9", "+", "/">>

B64(n) == Base64Alphabet[n + 1]

RECURSIVE Base64Encode(_)
Base64Encode(s) ==
    IF s = <<>> THEN <<>>
    ELSE LET b1 == AsciiOf(s[1])
             b2 == IF Len(s) >= 2 THEN AsciiOf(s[2]) ELSE 0
             b3 == IF Len(s) >= 3 THEN AsciiOf(s[3]) ELSE 0
             n == b1 * 65536 + b2 * 256 + b3
             c1 == B64(n \div 262144)
             c2 == B64((n \div 4096) % 64)
             c3 == B64((n \div 64) % 64)
             c4 == B64(n % 64)
         IN  IF Len(s) = 1 THEN <<c1, c2, "=", "=">>
             ELSE IF Len(s) = 2 THEN <<c1, c2, c3, "=">>
             ELSE <<c1, c2, c3, c4>> \o Base64Encode(SubSeq(s, 4, Len(s)))

(***************************************************************************)
(* The JSON codec.  Request data is one of: the unit value, an integer, a  *)
(* string, or a value whose Serialize implementation fails.  The target    *)
(* type of a decoded response is an unsigned integer.                      *)
(***************************************************************************)
DataNull == [kind |-> "null"]
DataInt(n) == [kind |-> "int", n |-> n]
DataStr(s) == [kind |-> "str", s |-> s]
DataBad == [kind |-> "bad"]

NullText == <<"n", "u", "l", "l">>

(* serde_json::to_string.                                                   *)
JsonToString(data) ==
    IF data.kind = "null" THEN Ok(NullText)
    ELSE IF data.kind = "int" THEN Ok(ToDecimal(data.n))
    ELSE IF data.kind = "str" THEN Ok(<<"\"">> \o data.s \o <<"\"">>)
    ELSE Err("SerializeParseError")

JsonWhitespace == {" ", "\n", "\r", "\t"}

RECURSIVE TrimLeft(_)
TrimLeft(s) == IF s # <<>> /\ s[1] \in JsonWhitespace THEN TrimLeft(Tail(s)) ELSE s

RECURSIVE TrimRight(_)
TrimRight(s) ==
    IF s # <<>> /\ s[Len(s)] \in JsonWhitespace THEN TrimRight(Prefix(s, Len(s) - 1)) ELSE s

RECURSIVE FromDecimal(_)
FromDecimal(s) ==
    IF s = <<>> THEN 0
    ELSE 10 * FromDecimal(Prefix(s, Len(s) - 1))
         + (CHOOSE d \in 0..9 : ToDecimal(d) = <<s[Len(s)]>>)

(* serde_json::from_str::<u64>: one number between optional whitespace,    *)
(* without a leading zero; anything else is a parse error.                 *)
JsonFromStr(s) ==
    LET t == TrimRight(TrimLeft(s))
    IN  IF /\ t # <<>>
           /\ \A i \in 1..Len(t) : t[i] \in Digits
           /\ (Len(t) > 1 => t[1] # "0")
        THEN Ok(FromDecimal(t))
        ELSE Err("JsonError")

(* The body-wash functions a caller may install: the default               *)
(* std::convert::identity, one that strips every 'x' the server emits      *)
(* around the JSON text, one that removes the first and the last character *)
(* of the body, and one that ignores the body and returns a fixed JSON     *)
(* text (tests/get_async.rs).                                              *)
WashFns == {"identity", "strip", "peel", "fixed"}

RECURSIVE StripX(_)
StripX(s) ==
    IF s = <<>> THEN <<>>
    ELSE (IF Head(s) = "x" THEN <<>> ELSE <<Head(s)>>) \o StripX(Tail(s))

ApplyWash(f, s) ==
    IF f = "identity" THEN s
    ELSE IF f = "strip" THEN StripX(s)
    ELSE IF f = "peel" THEN SubSeq(s, 2, Len(s) - 1)
    ELSE <<"4", "2">>

(* String::from_utf8_lossy: a byte that is no valid UTF-8 ("FF" here)      *)
(* becomes the replacement character.                                       *)
FromUtf8Lossy(bytes) == [i \in 1..Len(bytes) |-> IF bytes[i] = "FF" THEN "U+FFFD" ELSE bytes[i]]

(* str::len: the length in bytes.                                           *)
RECURSIVE ByteLen(_)
ByteLen(s) ==
    IF s = <<>> THEN 0
    ELSE (IF Head(s) = "U+FFFD" THEN 3 ELSE 1) + ByteLen(Tail(s))


(***************************************************************************)
(* Durations.  Duration::from_secs(u64::MAX) is the "no timeout" value of  *)
(* Builder::default; the seconds of any other duration are a small number. *)
(***************************************************************************)
DurationFromSecs(n) == [max_secs |-> FALSE, secs |-> n]
DurationFromSecsU64Max == [max_secs |-> TRUE, secs |-> 0]

(***************************************************************************)
(* The crate version, env!("CARGO_PKG_VERSION"): a text the build sets.    *)
(***************************************************************************)
VERSION == <<"1", ".", "6", ".", "0">>

DefaultUserAgent == <<"r", "e", "s", "t", "s", "o", "n", "/">> \o VERSION

ApplicationJson ==
    <<"a", "p", "p", "l", "i", "c", "a", "t", "i", "o", "n", "/", "j", "s", "o", "n">>

(***************************************************************************)
(* The request builder.                                                    *)
(***************************************************************************)

(* make_uri, were the pairs pushed onto the URL text as they are.          *)
make_uri_literal(self, path, params) ==
    LET joined == UrlJoin(self.baseurl, path)
    IN  IF ~joined.ok THEN Err([kind |-> "UrlError"])
        ELSE LET text == UrlAsStr(joined.val)
                 pairs == IF params.some
                          THEN [i \in 1..Len(params.v) |->
                                    params.v[i][1] \o <<"=">> \o params.v[i][2]]
                          ELSE <<>>
             IN  Ok(IF pairs = <<>> THEN text
                    ELSE text \o <<"?">> \o JoinWith(pairs, <<"&">>))

(* RestClient::make_uri.                                                    *)
make_uri(self, path, params) ==
    LET joined == UrlJoin(self.baseurl, path)
    IN  IF ~joined.ok THEN Err([kind |-> "UrlError"])
        ELSE LET url == IF params.some THEN AppendPairs(joined.val, params.v)
                        ELSE joined.val
                 uri == UriParse(UrlAsStr(url))
             IN  IF uri.ok THEN Ok(uri.val) ELSE Err([kind |-> "UrlError"])

(* AttachBody, were Content-Length the number of characters of the body.   *)
AttachBody_counts_chars(self, req, body) ==
    IF body.some /\ (self.send_null_body \/ body.v # NullText)
    THEN [req EXCEPT
            !.headers = HeaderInsert(
                            HeaderInsert(req.headers, CONTENT_LENGTH,
                                         ToDecimal(Len(body.v))),
                            CONTENT_TYPE, ApplicationJson),
            !.body = Some(body.v)]
    ELSE req

(* AttachBody, were the body attached whatever the flag.                   *)
AttachBody_always(self, req, body) ==
    IF body.some
    THEN [req EXCEPT
            !.headers = HeaderInsert(
                            HeaderInsert(req.headers, CONTENT_LENGTH,
                                         ToDecimal(ByteLen(body.v))),
                            CONTENT_TYPE, ApplicationJson),
            !.body = Some(body.v)]
    ELSE req

(* The body step of make_request: the body and its two headers are         *)
(* attached unless the body is the text null and send_null_body is off.    *)
AttachBody(self, req, body) ==
    IF body.some /\ (self.send_null_body \/ body.v # NullText)
    THEN [req EXCEPT
            !.headers = HeaderInsert(
                            HeaderInsert(req.headers, CONTENT_LENGTH,
                                         ToDecimal(ByteLen(body.v))),
                            CONTENT_TYPE, ApplicationJson),
            !.body = Some(body.v)]
    ELSE req

(* The Authorization step of make_request.                                 *)
AttachAuth(self, req) ==
    IF self.auth.some
    THEN [req EXCEPT !.headers = HeaderInsert(req.headers, AUTHORIZATION, self.auth.v)]
    ELSE req

(* The custom-header loop of make_request.                                 *)
AttachCustomHeaders(self, req) ==
    [req EXCEPT !.headers = InsertAll(req.headers, self.headers, DOMAIN self.headers)]

(* AttachUserAgent, were the default set without looking.                  *)
AttachUserAgent_always(req) ==
    [req EXCEPT !.headers = HeaderInsert(req.headers, USER_AGENT, DefaultUserAgent)]

(* The User-Agent step of make_request.                                    *)
AttachUserAgent(req) ==
    IF ~HeaderContainsKey(req.headers, USER_AGENT)
    THEN [req EXCEPT !.headers = HeaderInsert(req.headers, USER_AGENT, DefaultUserAgent)]
    ELSE req

(* make_request, were the custom headers copied before the builder's own.  *)
make_request_custom_first(self, method, path, query, body) ==
    IF ~path.ok THEN Err(path.err)
    ELSE LET uri == make_uri(self, path.val, query)
         IN  IF ~uri.ok THEN Err(uri.err)
             ELSE LET req == [method |-> method, uri |-> uri.val,
                              headers |-> HeaderMapNew, body |-> None]
                  IN  Ok(AttachUserAgent(
                           AttachAuth(self,
                             AttachBody(self, AttachCustomHeaders(self, req), body))))

(* make_request, were every failure of get_path reported as UrlError.      *)
make_request_masks_path(self, method, path, query, body) ==
    IF ~path.ok THEN Err([kind |-> "UrlError"])
    ELSE LET uri == make_uri(self, path.val, query)
         IN  IF ~uri.ok THEN Err(uri.err)
             ELSE LET req == [method |-> method, uri |-> uri.val,
                              headers |-> HeaderMapNew, body |-> None]
                  IN  Ok(AttachUserAgent(
                           AttachCustomHeaders(self,
                             AttachAuth(self, AttachBody(self, req, body)))))

(* RestClient::make_request; path is the result of T::get_path(params).    *)
make_request(self, method, path, query, body) ==
    IF ~path.ok THEN Err(path.err)
    ELSE LET uri == make_uri(self, path.val, query)
         IN  IF ~uri.ok THEN Err(uri.err)
             ELSE LET req == [method |-> method, uri |-> uri.val,
                              headers |-> HeaderMapNew, body |-> None]
                  IN  Ok(AttachUserAgent(
                           AttachCustomHeaders(self,
                             AttachAuth(self, AttachBody(self, req, body)))))

(***************************************************************************)
(* The verbs: the method each sends, whether it takes a query and data,    *)
(* and whether it parses the response body.                                *)
(***************************************************************************)
VerbShape(method, query, data, parse) ==
    [method |-> method, query |-> query, data |-> data, parse |-> parse]

Verbs ==
    [get                 |-> VerbShape("GET", FALSE, FALSE, TRUE),
     get_with            |-> VerbShape("GET", TRUE, FALSE, TRUE),
     post                |-> VerbShape("POST", FALSE, TRUE, FALSE),
     put                 |-> VerbShape("PUT", FALSE, TRUE, FALSE),
     patch               |-> VerbShape("PATCH", FALSE, TRUE, FALSE),
     post_with           |-> VerbShape("POST", TRUE, TRUE, FALSE),
     put_with            |-> VerbShape("PUT", TRUE, TRUE, FALSE),
     patch_with          |-> VerbShape("PATCH", TRUE, TRUE, FALSE),
     post_capture        |-> VerbShape("POST", FALSE, TRUE, TRUE),
     put_capture         |-> VerbShape("PUT", FALSE, TRUE, TRUE),
     patch_capture       |-> VerbShape("PATCH", FALSE, TRUE, TRUE),
     delete_capture      |-> VerbShape("DELETE", FALSE, TRUE, TRUE),
     post_capture_with   |-> VerbShape("POST", TRUE, TRUE, TRUE),
     put_capture_with    |-> VerbShape("PUT", TRUE, TRUE, TRUE),
     patch_capture_with  |-> VerbShape("PATCH", TRUE, TRUE, TRUE),
     delete_capture_with |-> VerbShape("DELETE", TRUE, TRUE, TRUE),
     delete              |-> VerbShape("DELETE", FALSE, FALSE, FALSE),
     delete_with         |-> VerbShape("DELETE", TRUE, TRUE, FALSE)]

VerbNames == DOMAIN Verbs

(***************************************************************************)
(* The response side.                                                      *)
(***************************************************************************)

(* StatusCode::is_success.                                                  *)
is_success(status) == 200 <= status /\ status < 300

(* Response<String>::parse (feature lib-serde-json).                       *)
parse(res) ==
    LET v == JsonFromStr(res.body)
    IN  IF v.ok THEN Ok([body |-> Some(v.val), headers |-> res.headers])
        ELSE Err([kind |-> "DeserializeParseError", body |-> res.body])

(* classify, were the body-wash function applied to its own output again.  *)
classify_washes_twice(self, headers, body, status) ==
    IF ~is_success(status)
    THEN Err([kind |-> "HttpError", status |-> status, body |-> body])
    ELSE Ok([body |-> ApplyWash(self.body_wash_fn, ApplyWash(self.body_wash_fn, body)),
             headers |-> headers])

(* classify, were the body washed before the status is looked at.         *)
classify_washes_first(self, headers, body, status) ==
    IF ~is_success(status)
    THEN Err([kind |-> "HttpError", status |-> status,
              body |-> ApplyWash(self.body_wash_fn, body)])
    ELSE Ok([body |-> ApplyWash(self.body_wash_fn, body), headers |-> headers])

(* classify, were the body-wash function never called.                     *)
classify_unwashed(self, headers, body, status) ==
    IF ~is_success(status)
    THEN Err([kind |-> "HttpError", status |-> status, body |-> body])
    ELSE Ok([body |-> body, headers |-> headers])

(* What run_request makes of the completed transport work                  *)
(* (response_headers, body, status): lines 691-700.                        *)
classify(self, headers, body, status) ==
    IF ~is_success(status)
    THEN Err([kind |-> "HttpError", status |-> status, body |-> body])
    ELSE Ok([body |-> ApplyWash(self.body_wash_fn, body), headers |-> headers])

(* finish, were the verbs that capture no body to return a Response with   *)
(* an empty header map.                                                    *)
finish_without_headers(verb, ran) ==
    IF ~ran.ok THEN ran
    ELSE IF Verbs[verb].parse THEN parse(ran.val)
    ELSE Ok([body |-> None, headers |-> HeaderMapNew])

(* What the verb makes of run_request's result: `?`, then res.parse() for  *)
(* get and the capture verbs, Response { body: (), headers } otherwise.    *)
finish(verb, ran) ==
    IF ~ran.ok THEN ran
    ELSE IF Verbs[verb].parse THEN parse(ran.val)
    ELSE Ok([body |-> None, headers |-> ran.val.headers])


(***************************************************************************)
(* The state.                                                              *)
(*   client  the RestClient (or blocking::RestClient), once constructed    *)
(*   ctor    the last constructor call and its result                      *)
(*   calls   per caller slot, the verb call running or last run there      *)
(*   net     per caller slot, the transport's side of that call: what was  *)
(*           submitted, what the server has delivered, whether the timer   *)
(*           of the call has elapsed                                       *)
(*   hist    the set_header and clear_headers calls made so far            *)
(***************************************************************************)
VARIABLES client, ctor, calls, net, hist

vars == <<client, ctor, calls, net, hist>>

NoClient == [kind |-> "none"]

NoArgs == [path |-> None, data |-> None, query |-> None]

(* washed and decoded count, for the call, the invocations of the          *)
(* body-wash function and of the deserializer.                             *)
IdleCall ==
    [st |-> "idle", verb |-> "get", args |-> NoArgs, req |-> None, timed |-> FALSE,
     stage |-> "request", head |-> None, result |-> None,
     washed |-> 0, decoded |-> 0, resolved |-> 0]

(* timer_first records the order of two events: whether the timer elapsed  *)
(* while the transport work was still incomplete.                          *)
(* timer_mid_body records whether the timer elapsed after the head of the  *)
(* answer had arrived and before its body was complete.                    *)
(* requests counts the calls of self.client.request for the operation.     *)
NoOp ==
    [sent |-> None, head |-> None, body |-> None, failed |-> FALSE,
     elapsed |-> FALSE, timer_first |-> FALSE, timer_mid_body |-> FALSE,
     abandoned |-> FALSE, requests |-> 0]

Init(E) ==
    /\ client = NoClient
    /\ ctor = None
    /\ calls = [c \in E.slots |-> IdleCall]
    /\ net = [c \in E.slots |-> NoOp]
    /\ hist = <<>>

Slots == DOMAIN calls

Pending(c) == calls[c].st = "pending"

(* Exclusive, were the setters callable through a shared reference.        *)
Exclusive_shared == client # NoClient

(* The setters take &mut self and a running call borrows &self: a setter   *)
(* can run only while no call is in flight.                                *)
Exclusive == client # NoClient /\ \A c \in Slots : ~Pending(c)

(* calls and net keep, for each slot, the record of the last call made     *)
(* there; the record is dropped when the caller goes on to reconfigure     *)
(* the client.                                                             *)
Forget ==
    /\ calls' = [c \in Slots |-> IdleCall]
    /\ net' = [c \in Slots |-> NoOp]

(***************************************************************************)
(* Construction.                                                           *)
(***************************************************************************)
BuilderDefault == [timeout |-> DurationFromSecsU64Max, send_null_body |-> TRUE]

(* with_builder, were the base URL stored without being parsed first.      *)
with_builder_unchecked(url, builder) ==
    LET baseurl == UrlParse(url)
    IN  Ok([kind |-> "async",
            baseurl |-> IF baseurl.ok THEN baseurl.val
                        ELSE [scheme |-> HttpScheme, host |-> url, path |-> <<>>,
                              query |-> None, fragment |-> None],
            auth |-> None,
            given |-> None,
            headers |-> HeaderMapNew,
            timeout |-> builder.timeout,
            send_null_body |-> builder.send_null_body,
            body_wash_fn |-> "identity"])

(* RestClient::with_builder.                                                *)
with_builder(url, builder) ==
    LET baseurl == UrlParse(url)
    IN  IF ~baseurl.ok THEN Err([kind |-> "UrlError"])
        ELSE Ok([kind |-> "async",
                 baseurl |-> baseurl.val,
                 auth |-> None,
                 given |-> None,
                 headers |-> HeaderMapNew,
                 timeout |-> builder.timeout,
                 send_null_body |-> builder.send_null_body,
                 body_wash_fn |-> "identity"])

(* blocking::RestClient::try_from; runtime_ok is whether tokio could build *)
(* the current-thread runtime.                                             *)
try_from(other, runtime_ok) ==
    IF runtime_ok THEN Ok([other EXCEPT !.kind = "blocking"])
    ELSE Err([kind |-> "IoError"])

(* RestClient::new, RestClient::new_blocking, Builder::build and           *)
(* Builder::blocking.                                                      *)
construct(how, url, builder, runtime_ok) ==
    LET made == with_builder(url, IF how \in {"new", "new_blocking"}
                                  THEN BuilderDefault ELSE builder)
    IN  IF how \in {"new_blocking", "blocking"} /\ made.ok
        THEN try_from(made.val, runtime_ok)
        ELSE made

Constructors == {"new", "new_blocking", "build", "blocking"}

Construct(E) ==
    /\ client = NoClient
    /\ \E how \in E.constructors, url \in E.urls :
       \E builder \in IF how \in {"build", "blocking"}
                      THEN [timeout : E.timeouts, send_null_body : E.null_flags]
                      ELSE {BuilderDefault},
          runtime_ok \in IF how \in {"new_blocking", "blocking"} THEN BOOLEAN ELSE {TRUE} :
          LET r == construct(how, url, builder, runtime_ok)
          IN  /\ client' = IF r.ok THEN r.val ELSE NoClient
              /\ ctor' = Some([how |-> how, url |-> url, runtime_ok |-> runtime_ok,
                               result |-> r])
    /\ UNCHANGED <<calls, net, hist>>

(***************************************************************************)
(* The setters.                                                            *)
(***************************************************************************)
SetSendNullBody(E) ==
    /\ Exclusive
    /\ \E send_null \in E.null_flags : client' = [client EXCEPT !.send_null_body = send_null]
    /\ Forget
    /\ UNCHANGED <<ctor, hist>>

(***************************************************************************)
(* The blocking facade: a RestClient that owns an asynchronous client and  *)
(* a current-thread runtime.  Each of its verbs drives one verb of the     *)
(* inner client to completion; each of its setters writes a field of the   *)
(* inner client.                                                           *)
(***************************************************************************)
BlockingVerbs ==
    [get                 |-> "get",
     get_with            |-> "get_with",
     post                |-> "post",
     put                 |-> "put",
     patch               |-> "patch",
     post_with           |-> "post_with",
     put_with            |-> "put_with",
     patch_with          |-> "patch_with",
     post_capture        |-> "post_capture",
     put_capture         |-> "put_capture",
     patch_capture       |-> "patch_capture",
     post_capture_with   |-> "post_capture_with",
     put_capture_with    |-> "put_capture_with",
     patch_capture_with  |-> "patch_capture_with",
     delete              |-> "delete",
     delete_with         |-> "delete_with",
     delete_capture      |-> "delete_capture",
     delete_capture_with |-> "delete_capture_with"]

(* The facade, were put_capture to drive the inner post_capture.           *)
block_on_crossed(verb) ==
    IF verb = "put_capture" THEN "post_capture" ELSE BlockingVerbs[verb]

(* The verb of the inner client a verb of the facade drives.               *)
block_on(verb) == BlockingVerbs[verb]

(* The verb of the asynchronous client a call of `verb` on `self` runs.    *)
inner_verb(self, verb) == IF self.kind = "blocking" THEN block_on(verb) ELSE verb

(* basic_auth, were user and password joined without the colon.            *)
basic_auth_unseparated(user, pass) ==
    <<"B", "a", "s", "i", "c", " ">> \o Base64Encode(user \o pass)

(* The value set_auth stores.  The client record keeps, beside it, the     *)
(* arguments of the latest set_auth call (given), which no code reads.     *)
basic_auth(user, pass) ==
    <<"B", "a", "s", "i", "c", " ">> \o Base64Encode(user \o <<":">> \o pass)

(* The value the facade's set_auth stores in the inner client.             *)
blocking_basic_auth(user, pass) ==
    LET s == (user \o <<":">>) \o pass
    IN  <<"B", "a", "s", "i", "c", " ">> \o Base64Encode(s)

SetAuth(E) ==
    /\ Exclusive
    /\ \E cred \in E.creds :
          client' = [client EXCEPT !.auth =
                         Some(IF client.kind = "blocking"
                              THEN blocking_basic_auth(cred[1], cred[2])
                              ELSE basic_auth(cred[1], cred[2])),
                                   !.given = Some(cred)]
    /\ Forget
    /\ UNCHANGED <<ctor, hist>>

SetBodyWashFn(E) ==
    /\ Exclusive
    /\ \E func \in E.washes : client' = [client EXCEPT !.body_wash_fn = func]
    /\ Forget
    /\ UNCHANGED <<ctor, hist>>

SetTimeout(E) ==
    /\ Exclusive
    /\ \E t \in E.timeouts : client' = [client EXCEPT !.timeout = t]
    /\ Forget
    /\ UNCHANGED <<ctor, hist>>

(* set_header, were an illegal value stored without its illegal            *)
(* characters.                                                             *)
set_header_lossy(headers, name, value) ==
    LET kept == SelectSeq(value, LAMBDA ch : ch \notin ControlChars)
    IN  IF ~HeaderNameValid(name) THEN Err([kind |-> "Panic"])
        ELSE Ok(HeaderInsert(headers, HeaderNameOf(name), kept))

(* RestClient::set_header on the header map: Ok with the new map, or       *)
(* InvalidValue; the value is checked first.  HeaderMap::insert with a     *)
(* &'static str name that is no legal header name panics ("static str is   *)
(* invalid name"): the call does not return, shown here as the outcome     *)
(* Panic, and the map is as it was.                                        *)
set_header(headers, name, value) ==
    LET v == HeaderValueFromStr(value)
    IN  IF ~v.ok THEN Err([kind |-> "InvalidValue"])
        ELSE IF ~HeaderNameValid(name) THEN Err([kind |-> "Panic"])
        ELSE Ok(HeaderInsert(headers, HeaderNameOf(name), v.val))

(* The facade's set_header on the header map of the inner client.         *)
blocking_set_header(headers, name, value) ==
    LET v == HeaderValueFromStr(value)
    IN  IF ~v.ok THEN Err([kind |-> "InvalidValue"])
        ELSE IF ~HeaderNameValid(name) THEN Err([kind |-> "Panic"])
        ELSE Ok(HeaderInsert(headers, HeaderNameOf(name), v.val))

SetHeader(E) ==
    /\ Exclusive
    /\ Len(hist) < E.max_hist
    /\ \E name \in E.header_names, value \in E.header_values :
          LET r == IF client.kind = "blocking"
                   THEN blocking_set_header(client.headers, name, value)
                   ELSE set_header(client.headers, name, value)
          IN  /\ client' = IF r.ok THEN [client EXCEPT !.headers = r.val] ELSE client
              /\ hist' = Append(hist, [op |-> "set", name |-> name, value |-> value,
                                       ok |-> r.ok,
                                       out |-> IF r.ok THEN "Ok" ELSE r.err.kind])
    /\ Forget
    /\ UNCHANGED ctor

(* clear_headers, were the map left as it is.                              *)
clear_headers_keeps(headers) == headers

(* clear_headers, were a custom User-Agent spared by the clearing.         *)
clear_headers_spares_user_agent(headers) ==
    [n \in DOMAIN headers \cap {USER_AGENT} |-> headers[n]]

(* RestClient::clear_headers on the header map.                            *)
clear_headers(headers) == HeaderMapNew

(* clear_headers, were the stored credential forgotten with the headers.   *)
ClearHeaders_forgets_auth(E) ==
    /\ Exclusive
    /\ Len(hist) < E.max_hist
    /\ client' = [client EXCEPT !.headers = clear_headers(client.headers),
                                !.auth = None]
    /\ hist' = Append(hist, [op |-> "clear", name |-> <<>>, value |-> <<>>, ok |-> TRUE,
                             out |-> "Ok"])
    /\ Forget
    /\ UNCHANGED ctor

(* The clear_headers step of a client: only the header map is assigned.    *)
ClearHeaders(E) ==
    /\ Exclusive
    /\ Len(hist) < E.max_hist
    /\ client' = [client EXCEPT !.headers = clear_headers(client.headers)]
    /\ hist' = Append(hist, [op |-> "clear", name |-> <<>>, value |-> <<>>, ok |-> TRUE,
                             out |-> "Ok"])
    /\ Forget
    /\ UNCHANGED ctor

(***************************************************************************)
(* A verb call, up to its first suspension: the data is serialized, the    *)
(* request is built, and run_request submits it to the transport.          *)
(***************************************************************************)
Done(verb, args, req, result) ==
    [st |-> "done", verb |-> verb, args |-> args, req |-> req, timed |-> FALSE,
     stage |-> "request", head |-> None, result |-> Some(result),
     washed |-> 0, decoded |-> 0, resolved |-> 0]

(* prepare, were a failed serialization sent on as no body.                *)
prepare_drops_unserializable(self, verb, path, data, query) ==
    LET shape == Verbs[verb]
        text == IF shape.data THEN JsonToString(data) ELSE Ok(<<>>)
    IN  make_request(self, shape.method, path,
                     IF shape.query THEN Some(query) ELSE None,
                     IF shape.data /\ text.ok THEN Some(text.val) ELSE None)

(* prepare, were the path resolved before the data is serialized.          *)
prepare_path_first(self, verb, path, data, query) ==
    LET shape == Verbs[verb]
        text == IF shape.data THEN JsonToString(data) ELSE Ok(<<>>)
    IN  IF ~path.ok THEN Err(path.err)
        ELSE IF ~text.ok THEN Err([kind |-> text.err])
        ELSE make_request(self, shape.method, path,
                          IF shape.query THEN Some(query) ELSE None,
                          IF shape.data THEN Some(text.val) ELSE None)

(* The synchronous prefix of a verb: Err(e) when serialization or the      *)
(* request build fails, Ok(request) otherwise.                             *)
prepare(self, verb, path, data, query) ==
    LET shape == Verbs[verb]
        text == IF shape.data THEN JsonToString(data) ELSE Ok(<<>>)
    IN  IF ~text.ok THEN Err([kind |-> text.err])
        ELSE make_request(self, shape.method, path,
                          IF shape.query THEN Some(query) ELSE None,
                          IF shape.data THEN Some(text.val) ELSE None)

(* How often the synchronous prefix of a verb calls T::get_path: once, in  *)
(* make_request (line 713), which every verb reaches unless the `?` after  *)
(* serde_json::to_string returned before it.                               *)
get_path_calls(verb, data) ==
    IF Verbs[verb].data /\ ~JsonToString(data).ok THEN 0 ELSE 1

(* has_timer, were the timer raced whatever the duration.                  *)
has_timer_always(duration) == TRUE

(* Whether run_request races the work against a timer (line 685).          *)
has_timer(duration) == duration # DurationFromSecsU64Max

(* request, were the request handed to the transport a second time.        *)
request_again(op, req) ==
    [op EXCEPT !.sent = Some(req), !.requests = op.requests + 2]

(* self.client.request(req) in run_request (line 673), the one place where *)
(* a request is handed to the transport.                                   *)
request(op, req) ==
    [op EXCEPT !.sent = Some(req), !.requests = op.requests + 1]

StartCall(E) ==
    /\ client # NoClient
    /\ \E c \in Slots, verb \in E.verbs, path \in E.paths :
       \E data \in IF Verbs[verb].data THEN E.datas ELSE {DataNull},
          query \in IF Verbs[verb].query THEN E.queries ELSE {<<>>} :
          /\ ~Pending(c)
          /\ client.kind = "blocking" => \A d \in Slots : ~Pending(d)
          /\ \E req \in {prepare(client, inner_verb(client, verb), path, data, query)},
                args \in {[path |-> Some(path),
                           data |-> IF Verbs[verb].data THEN Some(data) ELSE None,
                           query |-> IF Verbs[verb].query THEN Some(query) ELSE None]} :
                 IF req.ok
                 THEN /\ calls' = [calls EXCEPT ![c] =
                             [st |-> "pending", verb |-> verb, args |-> args,
                              req |-> Some(req.val),
                              timed |-> has_timer(client.timeout),
                              stage |-> "request", head |-> None, result |-> None,
                              washed |-> 0, decoded |-> 0,
                              resolved |-> get_path_calls(verb, data)]]
                      /\ net' = [net EXCEPT ![c] = request(NoOp, req.val)]
                 ELSE /\ calls' = [calls EXCEPT ![c] =
                             [Done(verb, args, None, Err(req.err))
                                EXCEPT !.resolved = get_path_calls(verb, data)]]
                      /\ net' = [net EXCEPT ![c] = NoOp]
    /\ UNCHANGED <<client, ctor, hist>>

(***************************************************************************)
(* The environment: the server's answer reaches the transport in two       *)
(* parts (status and headers, then the whole body), the transport may      *)
(* fail, and the timer of a call may reach its deadline.  An operation the *)
(* caller has abandoned may still complete on the wire.                    *)
(***************************************************************************)
OnWire(c) == net[c].sent.some /\ (Pending(c) \/ net[c].abandoned)

ServerHead(E) ==
    /\ \E c \in Slots, status \in E.statuses, headers \in E.response_headers :
          /\ OnWire(c) /\ ~net[c].head.some /\ ~net[c].failed
          /\ net' = [net EXCEPT ![c].head = Some([status |-> status, headers |-> headers])]
    /\ UNCHANGED <<client, ctor, calls, hist>>

ServerBody(E) ==
    /\ \E c \in Slots, bytes \in E.bodies :
          /\ OnWire(c) /\ net[c].head.some /\ ~net[c].body.some /\ ~net[c].failed
          /\ net' = [net EXCEPT ![c].body = Some(bytes)]
    /\ UNCHANGED <<client, ctor, calls, hist>>

TransportFail ==
    /\ \E c \in Slots :
          /\ OnWire(c) /\ ~net[c].body.some /\ ~net[c].failed
          /\ net' = [net EXCEPT ![c].failed = TRUE]
    /\ UNCHANGED <<client, ctor, calls, hist>>

TimerElapse ==
    /\ \E c \in Slots :
          /\ Pending(c) /\ calls[c].timed /\ ~net[c].elapsed
          /\ net' = [net EXCEPT ![c].elapsed = TRUE,
                                ![c].timer_first = ~(net[c].body.some \/ net[c].failed),
                                ![c].timer_mid_body =
                                    /\ net[c].head.some
                                    /\ ~(net[c].body.some \/ net[c].failed)]
    /\ UNCHANGED <<client, ctor, calls, hist>>

(***************************************************************************)
(* run_request resumed: the future of a call is polled.                    *)
(***************************************************************************)

(* poll_work, were a failure while the body is read taken for the end of   *)
(* an empty body.                                                          *)
poll_work_truncates(call, op) ==
    LET head == IF call.stage = "body" THEN call.head ELSE op.head
    IN  IF ~head.some
        THEN IF op.failed
             THEN [ready |-> TRUE, out |-> Err([kind |-> "HyperError"]),
                   stage |-> call.stage, head |-> call.head]
             ELSE [ready |-> FALSE, out |-> None, stage |-> call.stage, head |-> call.head]
        ELSE IF op.body.some \/ op.failed
             THEN [ready |-> TRUE,
                   out |-> Ok([headers |-> head.v.headers,
                               body |-> IF op.body.some THEN FromUtf8Lossy(op.body.v)
                                        ELSE <<>>,
                               status |-> head.v.status]),
                   stage |-> "body", head |-> head]
             ELSE [ready |-> FALSE, out |-> None, stage |-> "body", head |-> head]

(* poll_work, were every call to read the answer from the operation of    *)
(* the first call instead of its own.                                      *)
poll_work_shared(call, op) ==
    LET first == net[CHOOSE d \in DOMAIN net : \A e \in DOMAIN net : d <= e]
        head == IF call.stage = "body" THEN call.head ELSE first.head
    IN  IF ~head.some
        THEN IF first.failed
             THEN [ready |-> TRUE, out |-> Err([kind |-> "HyperError"]),
                   stage |-> call.stage, head |-> call.head]
             ELSE [ready |-> FALSE, out |-> None, stage |-> call.stage, head |-> call.head]
        ELSE IF first.body.some
             THEN [ready |-> TRUE,
                   out |-> Ok([headers |-> head.v.headers,
                               body |-> FromUtf8Lossy(first.body.v),
                               status |-> head.v.status]),
                   stage |-> "body", head |-> head]
             ELSE IF first.failed
             THEN [ready |-> TRUE, out |-> Err([kind |-> "HyperError"]),
                   stage |-> "body", head |-> head]
             ELSE [ready |-> FALSE, out |-> None, stage |-> "body", head |-> head]

(* One poll of the `work` block (lines 672-683): it passes                 *)
(* self.client.request(req).await once the head is there, keeps the        *)
(* headers and the status, and passes hyper::body::aggregate(res).await    *)
(* once the body is there; a transport failure ends it with an error.      *)
poll_work(call, op) ==
    LET head == IF call.stage = "body" THEN call.head ELSE op.head
    IN  IF ~head.some
        THEN IF op.failed
             THEN [ready |-> TRUE, out |-> Err([kind |-> "HyperError"]),
                   stage |-> call.stage, head |-> call.head]
             ELSE [ready |-> FALSE, out |-> None, stage |-> call.stage, head |-> call.head]
        ELSE IF op.body.some
             THEN [ready |-> TRUE,
                   out |-> Ok([headers |-> head.v.headers,
                               body |-> FromUtf8Lossy(op.body.v),
                               status |-> head.v.status]),
                   stage |-> "body", head |-> head]
             ELSE IF op.failed
             THEN [ready |-> TRUE, out |-> Err([kind |-> "HyperError"]),
                   stage |-> "body", head |-> head]
             ELSE [ready |-> FALSE, out |-> None, stage |-> "body", head |-> head]

(* race, were the timer looked at before the work.                         *)
race_timer_first(timed, work_ready, elapsed) ==
    IF timed /\ elapsed THEN "elapsed"
    ELSE IF work_ready THEN "work"
    ELSE "pending"

(* timeout(duration, work).await when the call has a timer, work.await     *)
(* when it has none (lines 685-689).  tokio's Timeout polls the work       *)
(* first and the timer only if the work is still pending.                  *)
race(timed, work_ready, elapsed) ==
    IF work_ready THEN "work"
    ELSE IF timed /\ elapsed THEN "elapsed"
    ELSE "pending"

(* run_request, were the timer to cover the work only until the head of    *)
(* the answer has arrived.                                                 *)
run_request_untimed_body(self, call, op) ==
    LET w == poll_work(call, op)
        won == race(call.timed /\ w.stage # "body", w.ready, op.elapsed)
    IN  IF won = "work"
        THEN Some(IF w.out.ok
                  THEN classify(self, w.out.val.headers, w.out.val.body, w.out.val.status)
                  ELSE w.out)
        ELSE IF won = "elapsed" THEN Some(Err([kind |-> "TimeoutError"]))
        ELSE None

(* run_request from the race on (lines 685-700).                           *)
run_request(self, call, op) ==
    LET w == poll_work(call, op)
        won == race(call.timed, w.ready, op.elapsed)
    IN  IF won = "work"
        THEN Some(IF w.out.ok
                  THEN classify(self, w.out.val.headers, w.out.val.body, w.out.val.status)
                  ELSE w.out)
        ELSE IF won = "elapsed" THEN Some(Err([kind |-> "TimeoutError"]))
        ELSE None

(* How many times this poll of run_request calls self.body_wash_fn (line   *)
(* 700): once, when the work has won with a success status.                *)
wash_calls(self, call, op) ==
    LET w == poll_work(call, op)
    IN  IF /\ race(call.timed, w.ready, op.elapsed) = "work"
           /\ w.out.ok
           /\ is_success(w.out.val.status)
        THEN 1 ELSE 0

(* How many times the verb calls serde_json::from_str on run_request's     *)
(* result: once in res.parse(), for get and the capture verbs.             *)
decode_calls(verb, ran) == IF ran.ok /\ Verbs[verb].parse THEN 1 ELSE 0

(* Whether a poll of the call's future finds anything new.                 *)
Woken(c) ==
    \/ calls[c].timed /\ net[c].elapsed
    \/ net[c].failed
    \/ calls[c].stage = "request" /\ net[c].head.some
    \/ calls[c].stage = "body" /\ net[c].body.some

(* work_alive, were the work future kept and polled after a timeout.       *)
work_alive_after_timeout(call) ==
    \/ call.st = "pending"
    \/ call.st = "done" /\ call.result = Some(Err([kind |-> "TimeoutError"]))

(* The work future is owned by run_request: it is polled while the call    *)
(* is suspended there and dropped when run_request returns.                *)
work_alive(call) == call.st = "pending"

Poll ==
    /\ \E c \in Slots :
          /\ work_alive(calls[c]) /\ net[c].sent.some /\ Woken(c)
          /\ \E w \in {poll_work(calls[c], net[c])},
                ran \in {run_request(client, calls[c], net[c])} :
                 IF ran.some
                 THEN /\ calls' = [calls EXCEPT ![c] =
                             [calls[c] EXCEPT !.st = "done", !.stage = w.stage,
                                              !.head = w.head,
                                              !.result = Some(finish(inner_verb(client, calls[c].verb),
                                                                     ran.v)),
                                              !.washed = wash_calls(client, calls[c], net[c]),
                                              !.decoded = decode_calls(inner_verb(client, calls[c].verb),
                                                                       ran.v)]]
                      /\ net' = [net EXCEPT ![c].abandoned =
                                     ~net[c].body.some /\ ~net[c].failed]
                 ELSE /\ calls' = [calls EXCEPT ![c].stage = w.stage, ![c].head = w.head]
                      /\ net' = net
    /\ UNCHANGED <<client, ctor, hist>>

Next(E) ==
    \/ Construct(E)
    \/ SetSendNullBody(E)
    \/ SetAuth(E)
    \/ SetBodyWashFn(E)
    \/ SetTimeout(E)
    \/ SetHeader(E)
    \/ ClearHeaders(E)
    \/ StartCall(E)
    \/ ServerHead(E)
    \/ ServerBody(E)
    \/ TransportFail
    \/ TimerElapse
    \/ Poll


(***************************************************************************)
(* Inputs.                                                                 *)
(***************************************************************************)
UrlHost == <<"h", "t", "t", "p", ":", "/", "/", "h">>
UrlDir == <<"h", "t", "t", "p", ":", "/", "/", "h", "/", "a", "/">>
UrlFile == <<"h", "t", "t", "p", ":", "/", "/", "h", "/", "a", "/", "b">>
UrlNoScheme == <<"1", "2", "3", "4">>
UrlNoHost == <<"h", "t", "t", "p", ":", "/", "/">>
UrlPathOnly == <<"/", "a">>

ValidUrls == {UrlHost, UrlDir, UrlFile}
InvalidUrls == {UrlNoScheme, UrlNoHost, UrlPathOnly, <<>>}

PathX == Ok(<<"x">>)
PathAbs == Ok(<<"/", "x">>)
PathUp == Ok(<<".", ".", "/", "x">>)
PathSpace == Ok(<<"x", " ", "y">>)
PathQuery == Ok(<<"x", "?", "k">>)
PathBadJoin == Ok(<<"/", "/">>)
PathDeep == Ok(<<"x", "/", "y">>)

PathErr == Err([kind |-> "UrlError"])
PathInvalid == Err([kind |-> "InvalidValue"])

QueryAB == << <<<<"a">>, <<"2">>>>, <<<<"b">>, <<"a", "b">>>> >>
QueryAA == << <<<<"a">>, <<"2">>>>, <<<<"a">>, <<"1">>>> >>
QuerySpace == << <<<<"a">>, <<"b", " ", "c">>>> >>
QueryAmp == << <<<<"a", "=">>, <<"b", "&", "c">>>> >>

HeaderXTest == <<"X", "-", "T", "e", "s", "t">>
HeaderUserAgent == <<"U", "s", "e", "r", "-", "A", "g", "e", "n", "t">>
HeaderContentType == <<"c", "o", "n", "t", "e", "n", "t", "-", "t", "y", "p", "e">>
HeaderXTestLower == <<"x", "-", "t", "e", "s", "t">>

HeaderBadName == <<"b", " ", "d">>

ValueA == <<"v", "1">>
ValueB == <<"v", "2">>
ValueBad == <<"v", "\n">>

ResponseHeadersJson == [n \in {CONTENT_TYPE} |-> <<ApplicationJson>>]

SET_COOKIE == <<"s", "e", "t", "-", "c", "o", "o", "k", "i", "e">>

ResponseHeadersNone == HeaderMapNew

ResponseHeadersCookies ==
    [n \in {CONTENT_TYPE, SET_COOKIE} |->
        IF n = CONTENT_TYPE THEN <<ApplicationJson>> ELSE <<ValueA, ValueB>>]

BodyNumber == <<"7">>
BodyText == <<"t", "e", "x", "t">>
BodyWrapped == <<"x", "7", "x">>
BodyBadUtf8 == <<"7", "FF">>

CredUserPass == <<<<"u", "s", "e", "r">>, <<"p", "a", "s", "s">>>>
CredNoPass == <<<<"a">>, <<>>>>

Creds == {CredUserPass}

HeaderAuthorization ==
    <<"A", "u", "t", "h", "o", "r", "i", "z", "a", "t", "i", "o", "n">>

HeaderContentLength ==
    <<"C", "o", "n", "t", "e", "n", "t", "-", "L", "e", "n", "g", "t", "h">>

(* A string whose one character takes three bytes in UTF-8.                *)
DataWide == DataStr(<<"U+FFFD">>)

(***************************************************************************)
(* The specifications: the same client under different bounded inputs.     *)
(***************************************************************************)
MaxCalls == 2
MaxHist == 3

(* One call at a time.                                                     *)
OneCall == {1}

(* Spec: every operation, on the smallest inputs.                          *)
EnvAll ==
    [slots |-> OneCall,
     constructors |-> {"new", "blocking"},
     urls |-> {UrlHost, UrlNoScheme},
     timeouts |-> {DurationFromSecsU64Max, DurationFromSecs(1)},
     null_flags |-> {TRUE, FALSE},
     creds |-> Creds,
     washes |-> {"identity", "strip"},
     header_names |-> {HeaderXTest},
     header_values |-> {ValueA},
     max_hist |-> MaxHist,
     verbs |-> {"get", "post_capture_with"},
     paths |-> {PathX, PathErr},
     datas |-> {DataNull, DataBad},
     queries |-> {QueryAB},
     statuses |-> {200, 404},
     response_headers |-> {ResponseHeadersJson},
     bodies |-> {BodyNumber, BodyWrapped}]

Spec == Init(EnvAll) /\ [][Next(EnvAll)]_vars

(* SpecRun: the transport executor and the decoder, with every verb and    *)
(* every kind of answer; the configuration that run_request reads          *)
(* (timeout, body_wash_fn) varies, the rest keeps its defaults.            *)
EnvRun ==
    [slots |-> OneCall,
     constructors |-> {"new", "new_blocking"},
     urls |-> {UrlHost},
     timeouts |-> {DurationFromSecsU64Max, DurationFromSecs(1)},
     washes |-> {"identity", "strip"},
     verbs |-> VerbNames,
     paths |-> {PathX, PathErr},
     datas |-> {DataInt(7), DataBad},
     queries |-> {QueryAB},
     statuses |-> {199, 200, 299, 300},
     response_headers |-> {ResponseHeadersJson},
     bodies |-> {BodyNumber, BodyText, BodyWrapped, BodyBadUtf8}]

NextRun(E) ==
    \/ Construct(E)
    \/ SetBodyWashFn(E)
    \/ SetTimeout(E)
    \/ StartCall(E)
    \/ ServerHead(E)
    \/ ServerBody(E)
    \/ TransportFail
    \/ TimerElapse
    \/ Poll

SpecRun == Init(EnvRun) /\ [][NextRun(EnvRun)]_vars

(* SpecBuild: the request builder under every configuration the header,  *)
(* null-body and User-Agent steps read.                                    *)
EnvBuild ==
    [slots |-> OneCall,
     constructors |-> {"new"},
     urls |-> {UrlHost},
     timeouts |-> {DurationFromSecsU64Max},
     null_flags |-> {TRUE, FALSE},
     header_names |-> {HeaderXTest, HeaderUserAgent, HeaderContentType},
     header_values |-> {ValueA, ValueB, ValueBad},
     max_hist |-> MaxHist,
     verbs |-> {"get", "post"},
     paths |-> {PathX},
     datas |-> {DataNull, DataStr(NullText), DataInt(7)},
     queries |-> {QueryAB},
     statuses |-> {200},
     response_headers |-> {ResponseHeadersJson},
     bodies |-> {BodyNumber}]

NextBuild(E) ==
    \/ Construct(E)
    \/ SetSendNullBody(E)
    \/ SetHeader(E)
    \/ ClearHeaders(E)
    \/ StartCall(E)
    \/ ServerHead(E)
    \/ ServerBody(E)
    \/ Poll

SpecBuild == Init(EnvBuild) /\ [][NextBuild(EnvBuild)]_vars

(* SpecUri: construction from every kind of base URL text, and the URL of *)
(* the request for every kind of path and query.                           *)
EnvUri ==
    [slots |-> OneCall,
     constructors |-> Constructors,
     urls |-> ValidUrls \cup InvalidUrls,
     timeouts |-> {DurationFromSecs(1)},
     null_flags |-> {TRUE},
     verbs |-> {"get", "get_with"},
     paths |-> {PathX, PathDeep, PathAbs, PathUp, PathSpace, PathQuery, PathErr},
     datas |-> {DataNull},
     queries |-> {<<>>, QueryAB, QueryAA, QuerySpace, QueryAmp}]

NextUri(E) ==
    \/ Construct(E)
    \/ StartCall(E)

SpecUri == Init(EnvUri) /\ [][NextUri(EnvUri)]_vars

(* SpecPre: every verb with arguments that fail before the transport      *)
(* (serialization, get_path, the URL join) and arguments that do not.      *)
EnvPre ==
    [slots |-> OneCall,
     constructors |-> {"new", "new_blocking"},
     urls |-> {UrlHost, UrlDir},
     timeouts |-> {DurationFromSecsU64Max},
     null_flags |-> {TRUE},
     verbs |-> VerbNames,
     paths |-> {PathX, PathBadJoin, PathErr, PathInvalid},
     datas |-> {DataInt(7), DataBad},
     queries |-> {QueryAB},
     statuses |-> {200, 500},
     response_headers |-> {ResponseHeadersJson},
     bodies |-> {BodyNumber}]

NextPre(E) ==
    \/ Construct(E)
    \/ StartCall(E)
    \/ ServerHead(E)
    \/ ServerBody(E)
    \/ TransportFail
    \/ Poll

SpecPre == Init(EnvPre) /\ [][NextPre(EnvPre)]_vars

(* SpecHdr: set_header with legal and illegal names and values, beside    *)
(* the other setters of what make_request reads.                           *)
EnvHdr ==
    [slots |-> OneCall,
     constructors |-> {"new", "new_blocking"},
     urls |-> {UrlHost},
     timeouts |-> {DurationFromSecsU64Max},
     null_flags |-> {TRUE, FALSE},
     creds |-> Creds,
     header_names |-> {HeaderXTest, HeaderBadName},
     header_values |-> {ValueA, ValueB, ValueBad},
     max_hist |-> MaxHist,
     verbs |-> {"get"},
     paths |-> {PathX},
     datas |-> {DataNull},
     queries |-> {QueryAB},
     statuses |-> {200},
     response_headers |-> {ResponseHeadersJson},
     bodies |-> {BodyNumber}]

NextHdr(E) ==
    \/ Construct(E)
    \/ SetSendNullBody(E)
    \/ SetAuth(E)
    \/ SetHeader(E)
    \/ ClearHeaders(E)
    \/ StartCall(E)
    \/ ServerHead(E)
    \/ ServerBody(E)
    \/ Poll

SpecHdr == Init(EnvHdr) /\ [][NextHdr(EnvHdr)]_vars

(* SpecFacade: the blocking facade beside the asynchronous client, with    *)
(* every setter and every verb of both.                                    *)
EnvFacade ==
    [slots |-> OneCall,
     constructors |-> {"new", "new_blocking"},
     urls |-> {UrlHost},
     timeouts |-> {DurationFromSecsU64Max, DurationFromSecs(1)},
     null_flags |-> {TRUE, FALSE},
     creds |-> Creds,
     washes |-> {"identity", "strip"},
     header_names |-> {HeaderXTest},
     header_values |-> {ValueA, ValueBad},
     max_hist |-> MaxHist,
     verbs |-> VerbNames,
     paths |-> {PathX},
     datas |-> {DataNull},
     queries |-> {QueryAB},
     statuses |-> {200, 404},
     response_headers |-> {ResponseHeadersJson},
     bodies |-> {BodyWrapped}]

NextFacade(E) ==
    \/ Construct(E)
    \/ SetSendNullBody(E)
    \/ SetAuth(E)
    \/ SetBodyWashFn(E)
    \/ SetTimeout(E)
    \/ SetHeader(E)
    \/ ClearHeaders(E)
    \/ StartCall(E)
    \/ ServerHead(E)
    \/ ServerBody(E)
    \/ Poll

SpecFacade == Init(EnvFacade) /\ [][NextFacade(EnvFacade)]_vars

(* SpecAuth: set_auth with two credentials beside custom headers, one of   *)
(* them named Authorization.                                               *)
EnvAuth ==
    [slots |-> OneCall,
     constructors |-> {"new", "new_blocking"},
     urls |-> {UrlHost},
     timeouts |-> {DurationFromSecsU64Max},
     null_flags |-> {TRUE},
     creds |-> {CredUserPass, CredNoPass},
     header_names |-> {HeaderXTest, HeaderAuthorization},
     header_values |-> {ValueA},
     max_hist |-> MaxHist,
     verbs |-> {"get", "post"},
     paths |-> {PathX},
     datas |-> {DataInt(7)},
     queries |-> {QueryAB},
     statuses |-> {200},
     response_headers |-> {ResponseHeadersJson},
     bodies |-> {BodyNumber}]

NextAuth(E) ==
    \/ Construct(E)
    \/ SetAuth(E)
    \/ SetHeader(E)
    \/ ClearHeaders(E)
    \/ StartCall(E)
    \/ ServerHead(E)
    \/ ServerBody(E)
    \/ Poll

SpecAuth == Init(EnvAuth) /\ [][NextAuth(EnvAuth)]_vars

(* SpecOnce: every verb through every step that can fail: serialization,  *)
(* get_path, the URL join, the transport, the timer, the status and the    *)
(* deserializer.                                                           *)
EnvOnce ==
    [slots |-> OneCall,
     constructors |-> {"build", "new_blocking"},
     urls |-> {UrlHost},
     timeouts |-> {DurationFromSecsU64Max, DurationFromSecs(1)},
     null_flags |-> {TRUE},
     verbs |-> VerbNames,
     paths |-> {PathX, PathBadJoin, PathErr},
     datas |-> {DataInt(7), DataBad},
     queries |-> {QueryAB},
     statuses |-> {200, 500},
     response_headers |-> {ResponseHeadersJson},
     bodies |-> {BodyNumber, BodyText}]

NextOnce(E) ==
    \/ Construct(E)
    \/ StartCall(E)
    \/ ServerHead(E)
    \/ ServerBody(E)
    \/ TransportFail
    \/ TimerElapse
    \/ Poll

SpecOnce == Init(EnvOnce) /\ [][NextOnce(EnvOnce)]_vars

(* SpecConc: several calls in flight on one client, each with its own      *)
(* transport operation and timer.                                          *)
EnvConc ==
    [slots |-> 1..MaxCalls,
     constructors |-> {"new", "build"},
     urls |-> {UrlHost},
     timeouts |-> {DurationFromSecs(1)},
     null_flags |-> {TRUE},
     verbs |-> {"get"},
     paths |-> {PathX},
     datas |-> {DataNull},
     queries |-> {QueryAB},
     statuses |-> {200, 404},
     response_headers |-> {ResponseHeadersJson},
     bodies |-> {BodyNumber}]

NextConc(E) ==
    \/ Construct(E)
    \/ StartCall(E)
    \/ ServerHead(E)
    \/ ServerBody(E)
    \/ TransportFail
    \/ TimerElapse
    \/ Poll

SpecConc == Init(EnvConc) /\ [][NextConc(EnvConc)]_vars

(* SpecShare: several calls with different requests in flight on one       *)
(* asynchronous client, answered in any order.                             *)
EnvShare ==
    [slots |-> 1..MaxCalls,
     constructors |-> {"new"},
     urls |-> {UrlHost},
     timeouts |-> {DurationFromSecsU64Max},
     null_flags |-> {TRUE},
     verbs |-> {"get"},
     paths |-> {PathX, PathQuery},
     datas |-> {DataNull},
     queries |-> {QueryAB},
     statuses |-> {200, 404},
     response_headers |-> {ResponseHeadersJson},
     bodies |-> {BodyNumber, BodyText}]

NextShare(E) ==
    \/ Construct(E)
    \/ StartCall(E)
    \/ ServerHead(E)
    \/ ServerBody(E)
    \/ TransportFail
    \/ Poll

SpecShare == Init(EnvShare) /\ [][NextShare(EnvShare)]_vars

(* SpecHead: every verb answered with different header sets (none, one    *)
(* header, a header with two values) and bodies.                           *)
EnvHead ==
    [slots |-> OneCall,
     constructors |-> {"new", "new_blocking"},
     urls |-> {UrlHost},
     timeouts |-> {DurationFromSecsU64Max},
     null_flags |-> {TRUE},
     washes |-> {"identity", "strip"},
     verbs |-> VerbNames,
     paths |-> {PathX},
     datas |-> {DataInt(7)},
     queries |-> {QueryAB},
     statuses |-> {200, 299, 404},
     response_headers |-> {ResponseHeadersNone, ResponseHeadersJson,
                           ResponseHeadersCookies},
     bodies |-> {BodyNumber, BodyWrapped}]

NextHead(E) ==
    \/ Construct(E)
    \/ SetBodyWashFn(E)
    \/ StartCall(E)
    \/ ServerHead(E)
    \/ ServerBody(E)
    \/ Poll

SpecHead == Init(EnvHead) /\ [][NextHead(EnvHead)]_vars

(* SpecBody: requests with and without a body, under set_auth and custom   *)
(* headers named as the headers the builder sets itself.                   *)
EnvBody ==
    [slots |-> OneCall,
     constructors |-> {"new"},
     urls |-> {UrlHost},
     timeouts |-> {DurationFromSecsU64Max},
     null_flags |-> {TRUE, FALSE},
     creds |-> Creds,
     header_names |-> {HeaderContentType, HeaderContentLength, HeaderAuthorization},
     header_values |-> {ValueA},
     max_hist |-> MaxHist,
     verbs |-> {"get", "post", "delete", "put_capture_with"},
     paths |-> {PathX},
     datas |-> {DataNull, DataInt(7), DataWide},
     queries |-> {QueryAB},
     statuses |-> {200},
     response_headers |-> {ResponseHeadersJson},
     bodies |-> {BodyNumber}]

NextBody(E) ==
    \/ Construct(E)
    \/ SetSendNullBody(E)
    \/ SetAuth(E)
    \/ SetHeader(E)
    \/ ClearHeaders(E)
    \/ StartCall(E)
    \/ ServerHead(E)
    \/ ServerBody(E)
    \/ Poll

SpecBody == Init(EnvBody) /\ [][NextBody(EnvBody)]_vars

(* SpecWash: every verb under the identity and under wash functions that   *)
(* change the body, one of them not idempotent.                            *)
EnvWash ==
    [slots |-> OneCall,
     constructors |-> {"new", "new_blocking"},
     urls |-> {UrlHost},
     timeouts |-> {DurationFromSecsU64Max},
     null_flags |-> {TRUE},
     washes |-> {"identity", "peel", "fixed"},
     verbs |-> VerbNames,
     paths |-> {PathX},
     datas |-> {DataInt(7)},
     queries |-> {QueryAB},
     statuses |-> {200, 404},
     response_headers |-> {ResponseHeadersJson},
     bodies |-> {BodyNumber, BodyWrapped}]

NextWash(E) ==
    \/ Construct(E)
    \/ SetBodyWashFn(E)
    \/ StartCall(E)
    \/ ServerHead(E)
    \/ ServerBody(E)
    \/ Poll

SpecWash == Init(EnvWash) /\ [][NextWash(EnvWash)]_vars

(* SpecMap: the custom header map under set_header with two spellings of   *)
(* one name, another name, legal and illegal values, and clear_headers.    *)
EnvMap ==
    [slots |-> OneCall,
     constructors |-> {"new", "new_blocking"},
     urls |-> {UrlHost},
     timeouts |-> {DurationFromSecsU64Max},
     null_flags |-> {TRUE},
     header_names |-> {HeaderXTest, HeaderXTestLower, HeaderUserAgent},
     header_values |-> {ValueA, ValueB, ValueBad},
     max_hist |-> MaxHist]

NextMap(E) ==
    \/ Construct(E)
    \/ SetHeader(E)
    \/ ClearHeaders(E)

SpecMap == Init(EnvMap) /\ [][NextMap(EnvMap)]_vars

(***************************************************************************)
(* The claims.                                                             *)
(***************************************************************************)
TimeoutError == Err([kind |-> "TimeoutError"])

WorkComplete(op) == op.body.some \/ op.failed

(* The call in slot c has returned and its transport work ran to the end   *)
(* of the response body.                                                   *)
Answered(c) ==
    /\ calls[c].st = "done"
    /\ net[c].sent.some /\ net[c].head.some /\ net[c].body.some
    /\ ~net[c].abandoned

RawText(c) == FromUtf8Lossy(net[c].body.v)

(* C1: for every verb, on the async and on the blocking client, when the   *)
(* transport work completes with a status outside 200..299 the call        *)
(* returns HttpError with exactly that status and the raw body text (not   *)
(* the washed text), and never a Response, even when the body would        *)
(* deserialize.                                                            *)
C1_NonSuccessIsHttpError ==
    \A c \in Slots :
        (Answered(c) /\ (net[c].head.v.status < 200 \/ net[c].head.v.status > 299))
        => calls[c].result = Some(Err([kind |-> "HttpError",
                                       status |-> net[c].head.v.status,
                                       body |-> RawText(c)]))

C1_Witness ==
    \E c \in Slots :
        /\ Answered(c)
        /\ net[c].head.v.status = 300
        /\ net[c].body.v = BodyWrapped
        /\ client.body_wash_fn = "strip"
        /\ client.kind = "blocking"
        /\ calls[c].verb = "put_capture_with"
        /\ ~calls[c].result.v.ok

(* C2 as stated: with a finite timeout, the call returns TimeoutError if   *)
(* and only if the timer elapsed before the transport work was complete.   *)
C2_TimeoutIffTimerFirst ==
    \A c \in Slots :
        (calls[c].st = "done" /\ net[c].sent.some /\ has_timer(client.timeout))
        => ((calls[c].result.v = TimeoutError) <=> net[c].timer_first)

(* C2, amended: with a finite timeout, the call returns TimeoutError if    *)
(* and only if, when its future is polled, the timer has elapsed and the   *)
(* transport work is still incomplete (the caller then does not wait for   *)
(* the work); work that is complete when the future is polled wins, even   *)
(* if the timer elapsed before the response arrived, and work that         *)
(* completes before the timer elapses never gives TimeoutError.            *)
C2_TimeoutIffTimerWinsAtPoll ==
    /\ [](\A c \in Slots :
            (calls[c].st = "done" /\ net[c].sent.some /\ ~net[c].timer_first)
            => calls[c].result.v # TimeoutError)
    /\ [][\A c \in Slots :
            (calls[c].st = "pending" /\ calls'[c].st = "done")
            => ((calls'[c].result.v = TimeoutError)
                <=> (has_timer(client.timeout) /\ net[c].elapsed
                     /\ ~WorkComplete(net[c])))]_vars

C2_Witness ==
    \E c \in Slots :
        /\ calls[c].st = "done"
        /\ calls[c].result.v = TimeoutError
        /\ net[c].abandoned
        /\ net[c].body.some

(* C4: while the configured timeout is Duration::from_secs(u64::MAX), no   *)
(* timer runs for any call and no call returns TimeoutError.               *)
C4_SentinelNeverTimesOut ==
    \A c \in Slots :
        (calls[c].st # "idle" /\ client.timeout = DurationFromSecsU64Max)
        => /\ ~net[c].elapsed
           /\ calls[c].result.some => calls[c].result.v # TimeoutError

C4_Witness ==
    \E c \in Slots :
        /\ Answered(c)
        /\ client.timeout = DurationFromSecsU64Max
        /\ ctor.v.how = "new"
        /\ calls[c].result.v.ok

(* C8: for get and the capture verbs, when the status is 2xx and the       *)
(* washed body does not deserialize, the call returns                      *)
(* DeserializeParseError carrying exactly the body-wash function's output  *)
(* on the raw text.                                                        *)
C8_DeserializeErrorCarriesWashedBody ==
    \A c \in Slots :
        LET washed == ApplyWash(client.body_wash_fn, RawText(c))
        IN  (/\ Answered(c)
             /\ net[c].head.v.status \in 200..299
             /\ Verbs[calls[c].verb].parse
             /\ ~JsonFromStr(washed).ok)
            => calls[c].result =
                 Some(Err([kind |-> "DeserializeParseError", body |-> washed]))

C8_Witness ==
    \E c \in Slots :
        /\ Answered(c)
        /\ net[c].body.v = BodyText
        /\ client.body_wash_fn = "strip"
        /\ calls[c].result.v = Err([kind |-> "DeserializeParseError",
                                    body |-> <<"t", "e", "t">>])

(* The result the call in slot c gets from its own transport operation.    *)
OwnOutcome(c) ==
    finish(calls[c].verb,
           classify(client, net[c].head.v.headers, RawText(c), net[c].head.v.status))

(* C3: once a call has returned TimeoutError, what its abandoned transport *)
(* operation does later (an answer or a failure) changes neither that      *)
(* call's result nor the client nor any other call, and every answered     *)
(* call's result comes from its own transport operation alone.              *)
C3_AbandonedOutcomeDiscarded ==
    /\ [](\A c \in Slots :
            /\ net[c].abandoned
               => calls[c].st = "done" /\ calls[c].result = Some(TimeoutError)
            /\ Answered(c) => calls[c].result = Some(OwnOutcome(c)))
    /\ [][\A c \in Slots :
            (/\ calls[c].st = "done" /\ calls[c].result = Some(TimeoutError)
             /\ calls'[c].st = "done" /\ net'[c].sent = net[c].sent)
            => /\ calls'[c] = calls[c]
               /\ client' = client
               /\ net'[c] # net[c] => calls' = calls]_vars

C3_Witness ==
    \E c, d \in Slots :
        /\ c # d
        /\ calls[c].st = "done" /\ calls[c].result = Some(TimeoutError)
        /\ net[c].abandoned /\ net[c].body.some /\ net[c].head.v.status = 404
        /\ Answered(d) /\ net[d].head.v.status = 200
        /\ calls[d].result.v.ok

(* The serialized body of the call in slot c, for a verb that takes data.  *)
SerializedBody(c) == JsonToString(calls[c].args.data.v).val

ContentHeaders == {CONTENT_LENGTH, CONTENT_TYPE}

(* C5 as stated: with send_null_body off and the serialized body exactly   *)
(* null, the request handed to the transport has no body and no            *)
(* Content-Length or Content-Type header; with send_null_body on, the body *)
(* is attached whatever it is.                                             *)
C5_NullBodySuppressed ==
    \A c \in Slots :
        (net[c].sent.some /\ calls[c].args.data.some)
        => IF client.send_null_body
           THEN net[c].sent.v.body = Some(SerializedBody(c))
           ELSE SerializedBody(c) = NullText
                => /\ net[c].sent.v.body = None
                   /\ ContentHeaders \cap DOMAIN net[c].sent.v.headers = {}

(* C5, amended: with send_null_body off and the serialized body exactly    *)
(* null, the request handed to the transport has no body and no            *)
(* Content-Length or Content-Type header other than a custom header of     *)
(* that name set through set_header, which is sent with its custom value;  *)
(* with send_null_body on, the body is attached whatever it is.            *)
C5_NullBodySuppressedButCustom ==
    \A c \in Slots :
        (net[c].sent.some /\ calls[c].args.data.some)
        => IF client.send_null_body
           THEN net[c].sent.v.body = Some(SerializedBody(c))
           ELSE SerializedBody(c) = NullText
                => /\ net[c].sent.v.body = None
                   /\ \A n \in ContentHeaders \cap DOMAIN net[c].sent.v.headers :
                         /\ n \in DOMAIN client.headers
                         /\ net[c].sent.v.headers[n] = client.headers[n]

C5_Witness ==
    \E c \in Slots :
        /\ net[c].sent.some
        /\ calls[c].verb = "post"
        /\ calls[c].args.data = Some(DataNull)
        /\ ~client.send_null_body
        /\ net[c].sent.v.body = None
        /\ CONTENT_TYPE \in DOMAIN net[c].sent.v.headers
        /\ CONTENT_LENGTH \notin DOMAIN net[c].sent.v.headers

(* The setter calls since the last clear_headers.                          *)
SinceClear(h) ==
    LET clears == {i \in DOMAIN h : h[i].op = "clear"}
        last == IF clears = {} THEN 0 ELSE CHOOSE i \in clears : \A j \in clears : j <= i
    IN  SubSeq(h, last + 1, Len(h))

(* The positions of h where set_header set the header named n.             *)
SetsOf(h, n) ==
    {i \in DOMAIN h : h[i].op = "set" /\ h[i].ok /\ HeaderNameOf(h[i].name) = n}

SetNames(h) == {HeaderNameOf(h[i].name) : i \in {j \in DOMAIN h : h[j].op = "set" /\ h[j].ok}}

LatestValue(h, n) == h[CHOOSE i \in SetsOf(h, n) : \A j \in SetsOf(h, n) : j <= i].value

BuilderHeaders == {CONTENT_LENGTH, CONTENT_TYPE, AUTHORIZATION, USER_AGENT}

(* C6: after any sequence of set_header and clear_headers calls, a built   *)
(* request has every custom header set since the last clear_headers, with  *)
(* its latest value, and no custom header set only before it: any other    *)
(* header of the request is one the builder itself writes, with the        *)
(* builder's value.                                                        *)
C6_HeadersSinceLastClear ==
    \A c \in Slots :
        net[c].sent.some
        => LET headers == net[c].sent.v.headers
               live == SinceClear(hist)
           IN  /\ \A n \in SetNames(live) :
                     n \in DOMAIN headers /\ headers[n] = <<LatestValue(live, n)>>
               /\ \A n \in DOMAIN headers \ SetNames(live) :
                     /\ n \in BuilderHeaders
                     /\ n = USER_AGENT => headers[n] = <<DefaultUserAgent>>
                     /\ n = CONTENT_TYPE => headers[n] = <<ApplicationJson>>

C6_Witness ==
    \E c \in Slots :
        /\ net[c].sent.some
        /\ Len(hist) = 3
        /\ hist[1] = [op |-> "set", name |-> HeaderXTest, value |-> ValueA, ok |-> TRUE,
                       out |-> "Ok"]
        /\ hist[2].op = "clear"
        /\ hist[3] = [op |-> "set", name |-> HeaderUserAgent, value |-> ValueB, ok |-> TRUE,
                       out |-> "Ok"]
        /\ DOMAIN net[c].sent.v.headers = {USER_AGENT}

(* C7: every built request has exactly one User-Agent header: the custom   *)
(* value when a User-Agent custom header is set on the client, otherwise   *)
(* restson/<crate version>.                                                *)
C7_OneUserAgent ==
    \A c \in Slots :
        net[c].sent.some
        => /\ USER_AGENT \in DOMAIN net[c].sent.v.headers
           /\ net[c].sent.v.headers[USER_AGENT] =
                IF USER_AGENT \in DOMAIN client.headers
                THEN <<client.headers[USER_AGENT][1]>>
                ELSE <<(<<"r", "e", "s", "t", "s", "o", "n", "/">> \o VERSION)>>

C7_Witness ==
    \E c \in Slots :
        /\ net[c].sent.some
        /\ hist # <<>>
        /\ hist[Len(hist)] =
             [op |-> "set", name |-> HeaderUserAgent, value |-> ValueA, ok |-> TRUE,
                       out |-> "Ok"]
        /\ net[c].sent.v.headers[USER_AGENT] = <<ValueA>>

BlockingConstructors == {"new_blocking", "blocking"}

(* C9 as stated: construction (new, Builder::build, new_blocking) succeeds *)
(* for every valid absolute base URL and fails with UrlError for every     *)
(* text that is no absolute URL, and then there is no client.              *)
C9_ConstructionByUrl ==
    (ctor.some /\ ctor.v.how \in {"new", "build", "new_blocking"})
    => /\ ctor.v.url \in ValidUrls => ctor.v.result.ok /\ client = ctor.v.result.val
       /\ ctor.v.url \in InvalidUrls
          => ctor.v.result = Err([kind |-> "UrlError"]) /\ client = NoClient

(* C9, amended: construction fails with UrlError for every text that is no *)
(* absolute URL; for a valid absolute base URL, new and Builder::build     *)
(* succeed, and new_blocking and Builder::blocking succeed unless the      *)
(* runtime of the blocking client cannot be built, which fails with        *)
(* IoError; after any failure there is no client and no call is made.      *)
C9_ConstructionByUrlAndRuntime ==
    ctor.some
    => /\ ctor.v.url \in InvalidUrls => ctor.v.result = Err([kind |-> "UrlError"])
       /\ ctor.v.url \in ValidUrls
          => IF ctor.v.how \in BlockingConstructors /\ ~ctor.v.runtime_ok
             THEN ctor.v.result = Err([kind |-> "IoError"])
             ELSE /\ ctor.v.result.ok
                  /\ client = ctor.v.result.val
                  /\ client.kind = IF ctor.v.how \in BlockingConstructors
                                   THEN "blocking" ELSE "async"
       /\ ~ctor.v.result.ok
          => client = NoClient /\ \A c \in Slots : calls[c].st = "idle"

C9_Witness ==
    /\ ctor.some
    /\ ctor.v.how = "new_blocking"
    /\ ctor.v.url = UrlDir
    /\ ~ctor.v.runtime_ok
    /\ ctor.v.result = Err([kind |-> "IoError"])
    /\ client = NoClient

(* The path has no query or fragment of its own.                           *)
PlainPath(p) == \A i \in 1..Len(p) : p[i] \notin {"?", "#"}

JoinedUrl(c) == UrlAsStr(UrlJoin(client.baseurl, calls[c].args.path.v.val).val)

Serialized(c) ==
    Verbs[calls[c].verb].data => JsonToString(calls[c].args.data.v).ok

(* C11: when get_path returns Err(e) and the steps before it succeeded,    *)
(* the verb returns exactly e and nothing is submitted to the transport.   *)
C11_PathErrorPropagated ==
    \A c \in Slots :
        (calls[c].st # "idle" /\ ~calls[c].args.path.v.ok /\ Serialized(c))
        => /\ calls[c].st = "done"
           /\ calls[c].result = Some(Err(calls[c].args.path.v.err))
           /\ ~net[c].sent.some

C11_Witness ==
    \E c \in Slots :
        /\ calls[c].verb = "post_capture_with"
        /\ calls[c].args.path = Some(PathInvalid)
        /\ calls[c].args.data = Some(DataInt(7))
        /\ calls[c].result = Some(Err([kind |-> "InvalidValue"]))
        /\ ~net[c].sent.some

(* Every step of the call in slot c that precedes the transport succeeds:  *)
(* serialization, get_path and the URL join.                               *)
Buildable(c) ==
    /\ Serialized(c)
    /\ calls[c].args.path.v.ok
    /\ UrlJoin(client.baseurl, calls[c].args.path.v.val).ok

(* C12: a request is submitted to the transport only by a call whose       *)
(* serialization, path resolution and URL build all succeeded, and it is   *)
(* the request that call built; a call that fails in one of these steps    *)
(* returns an error and submits nothing.                                   *)
C12_SubmissionOnlyAfterBuild ==
    \A c \in Slots :
        /\ net[c].sent.some => Buildable(c) /\ calls[c].req = net[c].sent
        /\ (calls[c].st # "idle" /\ ~Buildable(c))
           => /\ calls[c].st = "done"
              /\ ~calls[c].result.v.ok
              /\ ~net[c].sent.some

C12_Witness ==
    \E c \in Slots :
        /\ calls[c].st = "done"
        /\ calls[c].verb = "put"
        /\ calls[c].args.path = Some(PathBadJoin)
        /\ calls[c].args.data = Some(DataInt(7))
        /\ calls[c].result = Some(Err([kind |-> "UrlError"]))
        /\ ~net[c].sent.some

(* The request the call in slot c submitted was built from the client's    *)
(* present configuration: auth, custom headers and null-body flag.         *)
BuiltFromConfiguration(c) ==
    LET req == net[c].sent.v
    IN  /\ client.auth.some => req.headers[AUTHORIZATION] = <<client.auth.v>>
        /\ ~client.auth.some => AUTHORIZATION \notin DOMAIN req.headers
        /\ \A n \in DOMAIN client.headers : req.headers[n] = client.headers[n]
        /\ (calls[c].args.data.some /\ SerializedBody(c) = NullText)
           => (req.body.some <=> client.send_null_body)

(* The call in slot c is run under the client's present timeout and        *)
(* body-wash function.                                                     *)
RunUnderConfiguration(c) ==
    /\ calls[c].timed = (client.timeout # DurationFromSecsU64Max)
    /\ (Answered(c) /\ is_success(net[c].head.v.status))
       => calls[c].result =
            Some(parse([body |-> ApplyWash(client.body_wash_fn, RawText(c)),
                        headers |-> net[c].head.v.headers]))

(* C13: what each setter stored is what every request issued afterwards    *)
(* is built from and run under, and no setter changes the configuration    *)
(* or the request of a call that is in flight.                             *)
C13_SettersAffectLaterRequestsOnly ==
    /\ [](\A c \in Slots :
            net[c].sent.some
            => BuiltFromConfiguration(c) /\ (Pending(c) => RunUnderConfiguration(c)))
    /\ [](\A c \in Slots :
            (Answered(c) /\ Verbs[calls[c].verb].parse) => RunUnderConfiguration(c))
    /\ [][\A c \in Slots :
            Pending(c)
            => /\ client' = client
               /\ net'[c].sent = net[c].sent
               /\ calls'[c].req = calls[c].req
               /\ calls'[c].timed = calls[c].timed]_vars

C13_Witness ==
    \E c \in Slots :
        /\ Answered(c)
        /\ calls[c].verb = "post_capture_with"
        /\ ctor.v.how = "new"
        /\ client.auth.some
        /\ client.headers # HeaderMapNew
        /\ client.timeout = DurationFromSecs(1)
        /\ ~client.send_null_body
        /\ client.body_wash_fn = "strip"
        /\ net[c].body.v = BodyWrapped
        /\ net[c].sent.v.body = None
        /\ calls[c].result.v.ok

(* The last setter call recorded, after a step that made one.              *)
LegalValue(value) == \A i \in 1..Len(value) : value[i] \notin ControlChars

Stored(headers, name, value) ==
    [n \in DOMAIN headers \cup {HeaderNameOf(name)} |->
        IF n = HeaderNameOf(name) THEN <<value>> ELSE headers[n]]

C15_NoDecodeWithoutCapture ==
    \A c \in Slots :
        (/\ Answered(c)
         /\ is_success(net[c].head.v.status)
         /\ ~Verbs[calls[c].verb].parse)
        => /\ calls[c].result =
                Some(Ok([body |-> None, headers |-> net[c].head.v.headers]))
           /\ calls[c].decoded = 0
           /\ calls[c].washed = 0

(* The asynchronous client with the configuration of `self`.               *)
AsyncCounterpart(self) == [self EXCEPT !.kind = "async"]

(* What the asynchronous verb named as the call in slot c builds from the  *)
(* same configuration and arguments.                                       *)
AsyncPrepared(c) ==
    prepare(AsyncCounterpart(client), calls[c].verb, calls[c].args.path.v,
            IF calls[c].args.data.some THEN calls[c].args.data.v ELSE DataNull,
            IF calls[c].args.query.some THEN calls[c].args.query.v ELSE <<>>)

(* C16: a verb of the blocking facade builds the request and returns the   *)
(* result that the asynchronous verb of the same name builds and returns   *)
(* for the same configuration, arguments and transport behaviour, and      *)
(* set_auth, set_header and clear_headers of the facade store what their   *)
(* asynchronous counterparts store and return what they return.            *)
C16_BlockingAsAsync ==
    /\ [](\A c \in Slots :
            (client # NoClient /\ client.kind = "blocking" /\ calls[c].st # "idle")
            => /\ calls[c].req = IF AsyncPrepared(c).ok
                                 THEN Some(AsyncPrepared(c).val) ELSE None
               /\ net[c].sent = calls[c].req
               /\ ~AsyncPrepared(c).ok
                  => calls[c].result = Some(Err(AsyncPrepared(c).err))
               /\ AsyncPrepared(c).ok
                  => calls[c].timed = has_timer(client.timeout))
    /\ [][\A c \in Slots :
            (client # NoClient /\ client.kind = "blocking"
             /\ calls[c].st = "pending" /\ calls'[c].st = "done")
            => calls'[c].result =
                 Some(finish(calls[c].verb,
                             run_request(AsyncCounterpart(client), calls[c], net[c]).v))]_vars
    /\ [][(client # NoClient /\ client.kind = "blocking" /\ client' # client)
          => \/ /\ hist' # hist
                /\ hist'[Len(hist')].op = "set"
                /\ LET e == hist'[Len(hist')]
                       r == set_header(client.headers, e.name, e.value)
                   IN  /\ r.ok /\ e.out = "Ok"
                       /\ client' = [client EXCEPT !.headers = r.val]
             \/ /\ hist' # hist
                /\ hist'[Len(hist')].op = "clear"
                /\ client' = [client EXCEPT !.headers = clear_headers(client.headers)]
             \/ /\ hist' = hist
                /\ \/ /\ client'.given # None
                      /\ client' = [client EXCEPT
                                      !.auth = Some(basic_auth(client'.given.v[1],
                                                               client'.given.v[2])),
                                      !.given = client'.given]
                   \/ \E b \in BOOLEAN : client' = [client EXCEPT !.send_null_body = b]
                   \/ \E f \in WashFns : client' = [client EXCEPT !.body_wash_fn = f]
                   \/ \E d \in {DurationFromSecsU64Max, DurationFromSecs(1)} :
                        client' = [client EXCEPT !.timeout = d]]_vars
    /\ [][(client # NoClient /\ client.kind = "blocking" /\ client' = client
           /\ hist' # hist /\ hist'[Len(hist')].op = "set")
          => LET e == hist'[Len(hist')]
                 r == set_header(client.headers, e.name, e.value)
             IN  IF r.ok THEN e.out = "Ok" /\ r.val = client.headers
                 ELSE e.out = r.err.kind]_vars

C16_Witness ==
    \E c \in Slots :
        /\ client.kind = "blocking"
        /\ client.auth.some
        /\ client.body_wash_fn = "strip"
        /\ client.timeout = DurationFromSecs(1)
        /\ Len(hist) = 2 /\ hist[1].out = "Ok" /\ hist[2].out = "InvalidValue"
        /\ calls[c].verb = "put_capture"
        /\ Answered(c)
        /\ net[c].sent.v.method = "PUT"
        /\ calls[c].result.v.ok

(* 'Basic ' followed by base64(user:pass), written out for the two         *)
(* credentials: dXNlcjpwYXNz for user:pass and YTo= for a: (no password).  *)
BasicOf(cred) ==
    IF cred = CredUserPass
    THEN <<"B", "a", "s", "i", "c", " ",
           "d", "X", "N", "l", "c", "j", "p", "w", "Y", "X", "N", "z">>
    ELSE <<"B", "a", "s", "i", "c", " ", "Y", "T", "o", "=">>

(* The Authorization header of the request in slot c, if it has one.       *)
SentAuthorization(c) ==
    IF AUTHORIZATION \in DOMAIN net[c].sent.v.headers
    THEN Some(net[c].sent.v.headers[AUTHORIZATION]) ELSE None

(* C17 as stated: after set_auth(user, pass) every request built carries   *)
(* the Authorization header 'Basic ' base64(user:pass) of the most recent  *)
(* set_auth call; without any set_auth call the client adds none of its    *)
(* own.                                                                    *)
C17_AuthorizationOfLatestSetAuth ==
    \A c \in Slots :
        net[c].sent.some
        => IF client.given.some
           THEN SentAuthorization(c) = Some(<<BasicOf(client.given.v)>>)
           ELSE SentAuthorization(c).some
                => /\ AUTHORIZATION \in DOMAIN client.headers
                   /\ SentAuthorization(c).v = client.headers[AUTHORIZATION]

(* C17, amended: the value is encoded when set_auth is called; a request   *)
(* built afterwards carries 'Basic ' base64(user:pass) of the most recent  *)
(* set_auth call as its Authorization header unless a custom header named  *)
(* Authorization, set through set_header and not cleared since, is         *)
(* present, which is then sent in its place; without any set_auth call the *)
(* only Authorization header a request can carry is such a custom one.     *)
C17_AuthorizationUnlessCustom ==
    /\ client # NoClient
       => client.auth = IF client.given.some
                        THEN Some(BasicOf(client.given.v)) ELSE None
    /\ \A c \in Slots :
        net[c].sent.some
        => IF AUTHORIZATION \in DOMAIN client.headers
           THEN SentAuthorization(c) = Some(client.headers[AUTHORIZATION])
           ELSE IF client.given.some
           THEN SentAuthorization(c) = Some(<<BasicOf(client.given.v)>>)
           ELSE SentAuthorization(c) = None

C17_Witness ==
    \E c \in Slots :
        /\ net[c].sent.some
        /\ client.given = Some(CredNoPass)
        /\ Len(hist) = 3
        /\ hist[1].name = HeaderAuthorization /\ hist[2].op = "clear"
        /\ hist[3].name = HeaderXTest
        /\ SentAuthorization(c) =
             Some(<< <<"B", "a", "s", "i", "c", " ", "Y", "T", "o", "=">> >>)
        /\ calls[c].verb = "post"

(* The error of the first step of the call in slot c that fails before     *)
(* the transport, if one does: serialization, then get_path, then the URL  *)
(* join.                                                                   *)
FirstBuildError(c) ==
    IF ~Serialized(c) THEN Some(Err([kind |-> "SerializeParseError"]))
    ELSE IF ~calls[c].args.path.v.ok THEN Some(Err(calls[c].args.path.v.err))
    ELSE IF ~UrlJoin(client.baseurl, calls[c].args.path.v.val).ok
    THEN Some(Err([kind |-> "UrlError"]))
    ELSE None

(* C18: a verb call hands at most one request to the transport, whatever   *)
(* the outcome (a 5xx status, a transport error, a timeout), and none when *)
(* a step before the transport fails; the call returns at the poll that    *)
(* finds the first failing step, with that step's error, and a call that   *)
(* has returned neither changes its result nor submits again.              *)
C18_OneSubmissionFirstError ==
    /\ [](\A c \in Slots :
            calls[c].st # "idle"
            => /\ net[c].requests = IF FirstBuildError(c).some THEN 0 ELSE 1
               /\ FirstBuildError(c).some
                  => calls[c].st = "done" /\ calls[c].result = FirstBuildError(c)
               /\ (calls[c].st = "done" /\ ~FirstBuildError(c).some)
                  => \/ /\ calls[c].result = Some(TimeoutError)
                        /\ calls[c].timed /\ net[c].elapsed
                     \/ /\ calls[c].result = Some(Err([kind |-> "HyperError"]))
                        /\ net[c].failed
                     \/ /\ Answered(c)
                        /\ calls[c].result = Some(OwnOutcome(c)))
    /\ [][\A c \in Slots :
            (Pending(c) /\ calls'[c] # calls[c])
            => IF WorkComplete(net[c]) \/ (calls[c].timed /\ net[c].elapsed)
               THEN calls'[c].st = "done" /\ net'[c].requests = 1
               ELSE Pending(c)' /\ net'[c] = net[c]]_vars
    /\ [][\A c \in Slots :
            (/\ calls[c].st = "done" /\ calls'[c].st = "done"
             /\ calls'[c].verb = calls[c].verb /\ calls'[c].args = calls[c].args)
            => /\ calls'[c] = calls[c]
               /\ net'[c].requests = net[c].requests
               /\ net'[c].sent = net[c].sent]_vars

C18_Witness ==
    \E c \in Slots :
        /\ calls[c].st = "done"
        /\ calls[c].verb = "patch_capture"
        /\ client.timeout = DurationFromSecs(1)
        /\ Answered(c)
        /\ net[c].head.v.status = 500
        /\ net[c].elapsed
        /\ calls[c].result = Some(Err([kind |-> "HttpError", status |-> 500,
                                       body |-> BodyText]))
        /\ net[c].requests = 1

(* The request the call in slot c builds from its own arguments.           *)
OwnRequest(c) ==
    prepare(client, calls[c].verb, calls[c].args.path.v,
            IF calls[c].args.data.some THEN calls[c].args.data.v ELSE DataNull,
            IF calls[c].args.query.some THEN calls[c].args.query.v ELSE <<>>)

(* C19: with several verb calls in flight on one client and no setter      *)
(* running, under every interleaving each call submits the request built   *)
(* from its own arguments and returns the result of the transport's answer *)
(* to that request; a step of one call leaves every other call and its     *)
(* transport operation as they are, and no step of a verb call changes the *)
(* client's configuration.                                                 *)
C19_ConcurrentCallsIndependent ==
    /\ [](\A c \in Slots :
            net[c].sent.some
            => /\ OwnRequest(c).ok /\ net[c].sent = Some(OwnRequest(c).val)
               /\ calls[c].st = "done"
                  => \/ /\ calls[c].result = Some(TimeoutError)
                        /\ calls[c].timed /\ net[c].elapsed
                     \/ /\ calls[c].result = Some(Err([kind |-> "HyperError"]))
                        /\ net[c].failed
                     \/ /\ Answered(c)
                        /\ calls[c].result = Some(OwnOutcome(c)))
    /\ [][\A c \in Slots :
            (calls'[c] # calls[c] /\ calls'[c].st # "idle")
            => /\ client' = client
               /\ \A d \in Slots \ {c} : calls'[d] = calls[d] /\ net'[d] = net[d]]_vars

C19_Witness ==
    \E c, d \in Slots :
        /\ c # d
        /\ Pending(c) /\ calls[c].args.path = Some(PathQuery)
        /\ net[c].head.some /\ net[c].head.v.status = 200
        /\ net[c].body = Some(BodyNumber)
        /\ Answered(d) /\ calls[d].args.path = Some(PathX)
        /\ net[d].head.v.status = 404 /\ net[d].body = Some(BodyText)
        /\ calls[d].result = Some(Err([kind |-> "HttpError", status |-> 404,
                                       body |-> BodyText]))
        /\ net[c].sent # net[d].sent

(* C20: every Response a verb returns, with or without a captured body,    *)
(* comes from a 2xx answer and carries exactly the header set the server   *)
(* sent in that answer, whatever the body-wash function and the decoder do *)
(* with the body; the headers are taken when the head of the answer        *)
(* arrives, before the body is read; and a verb that captures no body      *)
(* returns such a Response for every 2xx answer.                           *)
C20_ResponseHeadersAsSent ==
    \A c \in Slots :
        /\ (calls[c].st = "done" /\ calls[c].result.v.ok)
           => /\ Answered(c)
              /\ is_success(net[c].head.v.status)
              /\ calls[c].result.v.val.headers = net[c].head.v.headers
        /\ (calls[c].st # "idle" /\ calls[c].stage = "body")
           => calls[c].head = net[c].head
        /\ (Answered(c) /\ is_success(net[c].head.v.status)
            /\ ~Verbs[calls[c].verb].parse)
           => calls[c].result.v.ok

C20_Witness ==
    \E c \in Slots :
        /\ calls[c].st = "done"
        /\ calls[c].verb = "put_with"
        /\ client.kind = "blocking"
        /\ client.body_wash_fn = "strip"
        /\ net[c].head.v.status = 299
        /\ net[c].body = Some(BodyWrapped)
        /\ calls[c].result.v.ok
        /\ calls[c].result.v.val.headers = ResponseHeadersCookies
        /\ calls[c].result.v.val.headers[SET_COOKIE] = <<ValueA, ValueB>>

(* The value make_request itself gives the header n of a request with the  *)
(* body text.                                                              *)
BuilderContentValue(n, text) ==
    IF n = CONTENT_TYPE THEN ApplicationJson ELSE ToDecimal(ByteLen(text))

(* C21 as stated: a request with a body carries Content-Type:              *)
(* application/json and a Content-Length equal to the byte length of the   *)
(* body; to a request without a body the builder itself adds neither.      *)
C21_ContentHeadersOfBody ==
    \A c \in Slots :
        net[c].sent.some
        => \A n \in ContentHeaders :
              IF net[c].sent.v.body.some
              THEN /\ n \in DOMAIN net[c].sent.v.headers
                   /\ net[c].sent.v.headers[n] =
                        <<BuilderContentValue(n, net[c].sent.v.body.v)>>
              ELSE n \in DOMAIN net[c].sent.v.headers
                   => /\ n \in DOMAIN client.headers
                      /\ net[c].sent.v.headers[n] = client.headers[n]

(* C21, amended: a request with a body carries Content-Type and            *)
(* Content-Length; each has the builder's value (application/json, the     *)
(* byte length of the body) unless a custom header of that name is set,    *)
(* whose value is then sent in its place; to a request without a body the  *)
(* builder itself adds neither.                                            *)
C21_ContentHeadersUnlessCustom ==
    \A c \in Slots :
        net[c].sent.some
        => \A n \in ContentHeaders :
              IF n \in DOMAIN client.headers
              THEN /\ n \in DOMAIN net[c].sent.v.headers
                   /\ net[c].sent.v.headers[n] = client.headers[n]
              ELSE IF net[c].sent.v.body.some
              THEN /\ n \in DOMAIN net[c].sent.v.headers
                   /\ net[c].sent.v.headers[n] =
                        <<BuilderContentValue(n, net[c].sent.v.body.v)>>
              ELSE n \notin DOMAIN net[c].sent.v.headers

C21_Witness ==
    \E c \in Slots :
        /\ net[c].sent.some
        /\ calls[c].verb = "put_capture_with"
        /\ calls[c].args.data = Some(DataWide)
        /\ net[c].sent.v.body = Some(<<"\"", "U+FFFD", "\"">>)
        /\ CONTENT_LENGTH \notin DOMAIN client.headers
        /\ net[c].sent.v.headers[CONTENT_LENGTH] = << <<"5">> >>
        /\ net[c].sent.v.headers[CONTENT_TYPE] = <<ValueA>>

(* A relative path of plain segments: it starts with no slash and no       *)
(* scheme, has no query or fragment, no dot segment and no character that  *)
(* is percent-encoded.                                                     *)
RelativePath(p) ==
    /\ p # <<>> /\ p[1] # "/" /\ SchemeEnd(p) = 0
    /\ \A i \in 1..Len(p) : p[i] \notin {"?", "#", " ", "."}

(* The text of a base URL up to and including the last slash of its path   *)
(* (a base with no path has the path /).                                   *)
BaseDirectory(t) ==
    LET host == Len(HttpScheme) + 4
        slashes == {i \in host..Len(t) : t[i] = "/"}
    IN  IF slashes = {} THEN t \o <<"/">>
        ELSE Prefix(t, CHOOSE i \in slashes : \A j \in slashes : j <= i)

(* C22: when the base URL ends with /, a relative path returned by         *)
(* get_path is appended to it; when it does not, the relative path         *)
(* replaces the last segment of the base's path.                           *)
C22_RelativePathJoin ==
    \A c \in Slots :
        (/\ calls[c].st # "idle" /\ ~calls[c].args.query.some
         /\ calls[c].args.path.v.ok /\ RelativePath(calls[c].args.path.v.val))
        => LET base == ctor.v.url
               path == calls[c].args.path.v.val
           IN  /\ net[c].sent.some
               /\ base[Len(base)] = "/" => net[c].sent.v.uri = base \o path
               /\ base[Len(base)] # "/"
                  => net[c].sent.v.uri = BaseDirectory(base) \o path

C22_Witness ==
    \E c \in Slots :
        /\ ctor.some /\ ctor.v.url = UrlFile
        /\ calls[c].args.path = Some(PathDeep)
        /\ calls[c].verb = "get"
        /\ net[c].sent.some
        /\ net[c].sent.v.uri =
             <<"h", "t", "t", "p", ":", "/", "/", "h", "/", "a", "/", "x", "/", "y">>

(* C23: for get and the capture verbs, a 2xx answer is decoded from the    *)
(* output of the body-wash function on the raw body, the function being    *)
(* the one stored by the latest set_body_wash_fn and the identity on a     *)
(* client just constructed; it is called once for the call, when the       *)
(* transport work is complete, and the deserializer once, on its output.   *)
C23_DecodesWashedBodyOnce ==
    /\ [](\A c \in Slots :
            /\ (Answered(c) /\ is_success(net[c].head.v.status)
                /\ Verbs[calls[c].verb].parse)
               => LET washed == ApplyWash(client.body_wash_fn, RawText(c))
                      value == JsonFromStr(washed)
                  IN  /\ calls[c].result =
                           Some(IF value.ok
                                THEN Ok([body |-> Some(value.val),
                                         headers |-> net[c].head.v.headers])
                                ELSE Err([kind |-> "DeserializeParseError",
                                          body |-> washed]))
                      /\ calls[c].washed = 1
                      /\ calls[c].decoded = 1
            /\ Pending(c) => calls[c].washed = 0 /\ calls[c].decoded = 0)
    /\ [][(client = NoClient /\ client' # NoClient)
          => client'.body_wash_fn = "identity"]_vars

C23_Witness ==
    \E c \in Slots :
        /\ Answered(c)
        /\ calls[c].verb = "delete_capture"
        /\ client.body_wash_fn = "peel"
        /\ net[c].head.v.status = 200
        /\ net[c].body = Some(BodyWrapped)
        /\ calls[c].result.v.ok
        /\ calls[c].result.v.val.body = Some(7)

(* The headers make_request sets itself before the custom ones.            *)
BuilderOwnHeaders == {AUTHORIZATION, CONTENT_TYPE, CONTENT_LENGTH}

(* C24: a custom header named Authorization, Content-Type or               *)
(* Content-Length, set through set_header and not cleared since, is sent   *)
(* with its custom value, and only that value, in every request built      *)
(* afterwards, in place of the value derived from set_auth or from the     *)
(* attached body.                                                          *)
C24_CustomHeadersOverride ==
    \A c \in Slots :
        net[c].sent.some
        => \A n \in BuilderOwnHeaders \cap SetNames(SinceClear(hist)) :
              /\ n \in DOMAIN net[c].sent.v.headers
              /\ net[c].sent.v.headers[n] = <<LatestValue(SinceClear(hist), n)>>

C24_Witness ==
    \E c \in Slots :
        /\ net[c].sent.some
        /\ calls[c].verb = "post"
        /\ client.auth.some
        /\ net[c].sent.v.body = Some(<<"7">>)
        /\ Len(hist) = 3
        /\ net[c].sent.v.headers[AUTHORIZATION] = <<ValueA>>
        /\ net[c].sent.v.headers[CONTENT_TYPE] = <<ValueA>>
        /\ net[c].sent.v.headers[CONTENT_LENGTH] = <<ValueA>>

(* The transport work of the call in slot c ended in a failure, before the *)
(* head of the answer or while the body was read, and the call was there   *)
(* to see it.                                                              *)
WorkFailed(c) == net[c].sent.some /\ net[c].failed /\ ~net[c].abandoned

(* C25: a call whose transport work fails, while the request is sent or    *)
(* while the response body is read, returns HyperError, whatever status    *)
(* had arrived, and the call returns at the poll that finds the failure.   *)
C25_TransportFailureIsHyperError ==
    /\ [](\A c \in Slots :
            (calls[c].st = "done" /\ WorkFailed(c))
            => calls[c].result = Some(Err([kind |-> "HyperError"])))
    /\ [](\A c \in Slots :
            (calls[c].st = "done" /\ calls[c].result = Some(Err([kind |-> "HyperError"])))
            => WorkFailed(c) /\ ~net[c].body.some)
    /\ [][\A c \in Slots :
            (Pending(c) /\ net[c].failed /\ calls'[c] # calls[c])
            => calls'[c].st = "done"]_vars

C25_Witness ==
    \E c \in Slots :
        /\ calls[c].st = "done"
        /\ calls[c].verb = "get"
        /\ net[c].head.some /\ net[c].head.v.status = 300
        /\ net[c].failed
        /\ net[c].elapsed
        /\ calls[c].result = Some(Err([kind |-> "HyperError"]))

(* C26: after any sequence of set_header (and clear_headers) calls the     *)
(* custom header map holds, for each name set successfully since the last  *)
(* clear, one value, that of the latest successful set_header for the      *)
(* name, names compared without regard to case, and nothing else.          *)
C26_OneValuePerNameLastWins ==
    client # NoClient
    => /\ DOMAIN client.headers = SetNames(SinceClear(hist))
       /\ \A n \in DOMAIN client.headers :
             /\ Len(client.headers[n]) = 1
             /\ client.headers[n][1] = LatestValue(SinceClear(hist), n)

C26_Witness ==
    /\ client # NoClient
    /\ Len(hist) = 3
    /\ hist[1].name = HeaderXTest /\ hist[1].value = ValueA /\ hist[1].ok
    /\ hist[2].name = HeaderXTestLower /\ hist[2].value = ValueB /\ hist[2].ok
    /\ hist[3].name = HeaderXTest /\ hist[3].value = ValueBad /\ ~hist[3].ok
    /\ client.headers = [n \in {<<"x", "-", "t", "e", "s", "t">>} |-> <<ValueB>>]

(* C27 as stated: if the timer fires after the status and the headers have *)
(* arrived and before the body is fully read, the call returns             *)
(* TimeoutError, whatever the status.                                      *)
C27_TimeoutWhileBodyIsRead ==
    \A c \in Slots :
        (calls[c].st = "done" /\ net[c].sent.some /\ net[c].timer_mid_body)
        => calls[c].result = Some(TimeoutError)

(* C27, amended: the timer covers the reading of the body: when the timer  *)
(* has fired after the status and the headers arrived and the body is      *)
(* still not fully read at the next poll of the call, the call returns     *)
(* TimeoutError at that poll, whatever the status; when the body has been  *)
(* read to its end, or the transport has failed, by that poll, the call    *)
(* returns the outcome of the work instead.                                *)
C27_TimeoutWhileBodyIsReadAtPoll ==
    [][\A c \in Slots :
         (Pending(c) /\ net[c].timer_mid_body /\ calls'[c] # calls[c])
         => /\ calls'[c].st = "done"
            /\ IF WorkComplete(net[c])
               THEN calls'[c].result # Some(TimeoutError)
               ELSE calls'[c].result = Some(TimeoutError)]_vars

C27_Witness ==
    \E c \in Slots :
        /\ calls[c].st = "done"
        /\ calls[c].verb = "post_capture"
        /\ net[c].timer_mid_body
        /\ calls[c].stage = "body"
        /\ calls[c].head.v.status = 200
        /\ ~net[c].body.some
        /\ calls[c].result = Some(TimeoutError)

(* C28: clear_headers empties the custom header set and changes nothing    *)
(* else of the client: auth, timeout, null-body flag, body-wash function   *)
(* and base URL stay as they are, so a request built after set_auth and    *)
(* clear_headers carries the Authorization header of set_auth.             *)
C28_ClearHeadersChangesHeadersOnly ==
    /\ [][(Len(hist') = Len(hist) + 1 /\ hist'[Len(hist')].op = "clear")
          => client' = [client EXCEPT !.headers = HeaderMapNew]]_vars
    /\ [](\A c \in Slots :
            (/\ net[c].sent.some /\ client.given.some
             /\ hist # <<>> /\ hist[Len(hist)].op = "clear")
            => /\ AUTHORIZATION \in DOMAIN net[c].sent.v.headers
               /\ net[c].sent.v.headers[AUTHORIZATION] = <<BasicOf(client.given.v)>>)

C28_Witness ==
    \E c \in Slots :
        /\ net[c].sent.some
        /\ client.kind = "blocking"
        /\ client.given = Some(CredNoPass)
        /\ Len(hist) = 2
        /\ hist[1].op = "set" /\ hist[1].name = HeaderAuthorization /\ hist[1].ok
        /\ hist[2].op = "clear"
        /\ net[c].sent.v.headers[AUTHORIZATION] =
             << <<"B", "a", "s", "i", "c", " ", "Y", "T", "o", "=">> >>

(* C29: when a custom User-Agent header was set through set_header and     *)
(* clear_headers was called after it, a request built from then on, as     *)
(* long as no User-Agent is set again, carries the default User-Agent      *)
(* restson/<crate version>: not the custom value set before the clearing,  *)
(* and not a request without User-Agent.                                   *)
C29_DefaultUserAgentAfterClear ==
    \A c \in Slots :
        (/\ net[c].sent.some
         /\ SetsOf(hist, USER_AGENT) # {}
         /\ SetsOf(SinceClear(hist), USER_AGENT) = {}
         /\ Len(SinceClear(hist)) < Len(hist))
        => /\ USER_AGENT \in DOMAIN net[c].sent.v.headers
           /\ net[c].sent.v.headers[USER_AGENT] = <<DefaultUserAgent>>
           /\ \A i \in SetsOf(hist, USER_AGENT) :
                 \A k \in DOMAIN net[c].sent.v.headers[USER_AGENT] :
                    net[c].sent.v.headers[USER_AGENT][k] # hist[i].value

C29_Witness ==
    \E c \in Slots :
        /\ net[c].sent.some
        /\ Len(hist) = 3
        /\ hist[1] = [op |-> "set", name |-> HeaderUserAgent, value |-> ValueB, ok |-> TRUE,
                       out |-> "Ok"]
        /\ hist[2].op = "clear"
        /\ hist[3] = [op |-> "set", name |-> HeaderXTest, value |-> ValueA, ok |-> TRUE,
                       out |-> "Ok"]
        /\ net[c].sent.v.headers[USER_AGENT] = <<DefaultUserAgent>>
        /\ DOMAIN net[c].sent.v.headers = {USER_AGENT, HeaderNameOf(HeaderXTest)}

(* The verbs that carry data: post, put, patch, delete_with and every      *)
(* capture variant.                                                        *)
BodyCarrying == {v \in VerbNames : Verbs[v].data}

(* C30: a body-carrying verb serializes the data before it resolves the    *)
(* path: when serialization fails the call returns SerializeParseError and *)
(* get_path was not called, also when get_path would have failed too; and  *)
(* a call whose path error is returned had its data serialized.            *)
C30_SerializedBeforePath ==
    \A c \in Slots :
        (calls[c].st # "idle" /\ calls[c].verb \in BodyCarrying)
        => /\ ~JsonToString(calls[c].args.data.v).ok
              => /\ calls[c].st = "done"
                 /\ calls[c].result = Some(Err([kind |-> "SerializeParseError"]))
                 /\ calls[c].resolved = 0
                 /\ ~net[c].sent.some
           /\ JsonToString(calls[c].args.data.v).ok => calls[c].resolved = 1

C30_Witness ==
    \E c \in Slots :
        /\ calls[c].st = "done"
        /\ calls[c].verb = "delete_with"
        /\ calls[c].args.data = Some(DataBad)
        /\ calls[c].args.path = Some(PathInvalid)
        /\ calls[c].result = Some(Err([kind |-> "SerializeParseError"]))
        /\ calls[c].resolved = 0

=============================================================================
